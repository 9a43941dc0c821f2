----------------------------- MODULE MessagePages -----------------------------
(***************************************************************************)
(* Pages of the messages of a conversation (whatsapp.service.ts,           *)
(* listMessages) and the query builder they are read with                  *)
(* (supabase.service.ts, QueryBuilder): filters, or(), order and limit.    *)
(*                                                                         *)
(* created_at is the time Meta gives a message, in whole seconds, so two   *)
(* messages may share it, and one may be stored after a later one.  A      *)
(* browser reads the last page and scrolls up, or reads on from the start. *)
(*                                                                         *)
(* Left out: the columns of a message but its time and its id, the text of *)
(* the statements, the base64 of a cursor.                                 *)
(***************************************************************************)
EXTENDS Statements, SequencesExt

CONSTANTS MessageIds,   \* uuids, by their order: numbers
          Moments,      \* created_at: numbers
          Take          \* rows of a page

\* None is no row and no time; listMessages takes one row at least.
ASSUME PagesAssumption ==
    /\ MessageIds \subseteq Int /\ IsFiniteSet(MessageIds) /\ Moments \subseteq Int
    /\ None \notin MessageIds \cup Moments /\ Take \in Nat \ {0}

VARIABLES
    chat,       \* chat[i]: created_at of the row of whatsapp_messages, or None
    scroll,     \* what the browser has: messages, cursor, hasMore, last answer
    behind      \* history: messages stored behind the browser's back

pageVars == <<chat, scroll, behind>>

Stored == {i \in MessageIds : chat[i] # None}
Earlier(i, j) == chat[i] < chat[j] \/ (chat[i] = chat[j] /\ i < j)
Upright == [way |-> "none", shown |-> <<>>, cursor |-> None, answer |-> "none"]

PagesInit == chat = [i \in MessageIds |-> None] /\ scroll = Upright /\ behind = {}

----------------------------------------------------------------------------
(* QueryBuilder *)

Clause(col, op, value) == [col |-> col, op |-> op, value |-> value, readable |-> TRUE]

\* or(expr): alternatives of one clause, or and(...) around several.  The text is
\* split at every comma, also inside and(...): of several, the first begins with
\* "and(" and the last ends with ")".
Segments(expr) ==
    UNION {{[clause |-> expr[a][i], opens |-> i = 1 /\ Len(expr[a]) > 1,
             closes |-> i > 1 /\ i = Len(expr[a])] : i \in DOMAIN expr[a]} : a \in DOMAIN expr}

\* parseOrSegment: "and(created_at" is no identifier, and the segment is dropped;
\* the quotes stay with the value, and so does the parenthesis at the end: a uuid
\* with it is none.
ParseOrSegment(s) ==
    IF s.opens THEN {}
    ELSE {IF s.closes THEN [s.clause EXCEPT !.readable = FALSE] ELSE s.clause}

OrClauses(expr) == UNION {ParseOrSegment(s) : s \in Segments(expr)}

\* filterSql.
Meets(i, c) ==
    LET v == IF c.col = "id" THEN i ELSE chat[i]
    IN  CASE c.op = "lt" -> v < c.value
          [] c.op = "gt" -> v > c.value
          [] c.op = "eq" -> v = c.value

\* buildWhere: the filters and one of the or() clauses.
Where(q) ==
    {i \in Stored : /\ \A c \in q.filters : Meets(i, c)
                    /\ q.ors # {} => \E c \in q.ors : Meets(i, c)}

\* buildOrderBy on created_at and id, buildLimitOffset.
OrderBy(S, ascending) ==
    Ordered(S, {p \in S \X S : IF ascending THEN Earlier(p[1], p[2]) ELSE Earlier(p[2], p[1])})
LimitTo(s, n) == SubSeq(s, 1, IF n < Len(s) THEN n ELSE Len(s))

\* PostgreSQL refuses a text that is no uuid, whatever the rows.
IsRefused(q)  == \E c \in q.ors : ~c.readable
ExecSelect(q) == LimitTo(OrderBy(Where(q), q.ascending), q.limit)

----------------------------------------------------------------------------
(* listMessages *)

\* Legacy: from the start, or after the time of the cursor.
ForwardQuery(cursor) ==
    [filters |-> IF cursor = None THEN {} ELSE {Clause("created_at", "gt", chat[cursor])},
     ors |-> {}, ascending |-> TRUE, limit |-> Take + 1]

\* The last messages, or those before a cursor.
LatestQuery(cursor) ==
    [filters |-> {}, ascending |-> FALSE, limit |-> Take + 1,
     ors |-> IF cursor = None THEN {}
             ELSE OrClauses(<< <<Clause("created_at", "lt", chat[cursor])>>,
                               <<Clause("created_at", "eq", chat[cursor]),
                                 Clause("id", "lt", cursor)>> >>)]

\* The page and the cursor of the next one, of the row it ends with.
Page(way, found) ==
    LET slice == LimitTo(found, Take)
        cursor == IF Len(found) > Take THEN Last(slice) ELSE None
    IN  [way |-> way, cursor |-> cursor, answer |-> "page",
         shown |-> IF way = "latest" THEN Reverse(slice) \o scroll.shown
                   ELSE scroll.shown \o slice]

ListMessages ==
    /\ Begins
    /\ \E way \in {"latest", "forward"} :
          /\ scroll.way = "none" \/ (scroll.way = way /\ scroll.cursor # None)
          /\ LET q == IF way = "latest" THEN LatestQuery(scroll.cursor)
                      ELSE ForwardQuery(scroll.cursor)
             IN  \/ ~IsRefused(q) /\ Answers /\ scroll' = Page(way, ExecSelect(q))
                 \/ IsRefused(q) /\ Answers /\ scroll' = [scroll EXCEPT !.answer = "refused"]
                 \/ Fails /\ scroll' = [scroll EXCEPT !.answer = "failed"]
    /\ UNCHANGED <<chat, behind>>

\* A message is stored, after others of a later time perhaps.
StoreMessage ==
    /\ Begins
    /\ \E i \in MessageIds \ Stored, t \in Moments : chat' = [chat EXCEPT ![i] = t]
    /\ behind' = IF scroll.way = "none" THEN behind ELSE behind \cup {i \in MessageIds :
                                                                 chat[i] # chat'[i]}
    /\ UNCHANGED <<scroll, faults>>

PagesNext == ListMessages \/ StoreMessage
PagesSpec == PagesInit /\ calls = 0 /\ faults = 0 /\ [][PagesNext]_<<pageVars, counters>>

----------------------------------------------------------------------------
(* Properties *)

\* Types of the rows and of the browser.
PagesTypeOK ==
    /\ chat \in [MessageIds -> Moments \cup {None}] /\ behind \subseteq Stored
    /\ ToSet(scroll.shown) \subseteq Stored /\ scroll.cursor \in MessageIds \cup {None}

\* The last page is the newest messages, and tells whether there are older ones; pages
\* read on from the start are in order, without a message twice, and miss nothing but
\* messages of the second at which a page ended, and those stored behind the browser.
PagesAgree ==
    LET shown  == scroll.shown
        unseen == Stored \ (ToSet(shown) \cup behind)
    IN  /\ \A x, y \in DOMAIN shown : x < y => Earlier(shown[x], shown[y])
        /\ scroll.way = "latest" =>
              /\ \A i \in unseen, j \in ToSet(shown) : Earlier(i, j)
              /\ scroll.cursor = None <=> unseen = {}
        /\ scroll.way = "forward" =>
              \A i \in unseen : \/ \E j \in ToSet(shown) : chat[j] = chat[i]
                                \/ scroll.cursor # None /\ Earlier(scroll.cursor, i)
=============================================================================
