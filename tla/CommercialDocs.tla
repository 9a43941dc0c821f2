---------------------------- MODULE CommercialDocs ----------------------------
(***************************************************************************)
(* Quotes (devis.service.ts), invoices (factures.service.ts) and           *)
(* propositions (propositions.service.ts): numbers by kind and year,       *)
(* totals, and the invoice made of a quote.                                *)
(*                                                                         *)
(* The next number is read and inserted in two statements; the unique      *)
(* index on numero refuses the second of two equal numbers, and a creation *)
(* tries Attempts times.  Only the last digits of a number are read back   *)
(* (slice(-4), slice(-3)), hence modulo NumberLimit.                       *)
(*                                                                         *)
(* Left out: names, addresses, texts and PDFs; ensureNumero, since numero  *)
(* is never null; the window of 200 rows nextNumero reads.  Amounts are in *)
(* cents, rates in per cent.                                               *)
(***************************************************************************)
EXTENDS Statements, FiniteSetsExt, SequencesExt

CONSTANTS Docs,         \* document ids
          DocYears,     \* years of dateEmission
          Contents,     \* what a request gives: [lines, rate], lines = <<[q, p], ...>>
          FreeTotals,   \* totals a conversion may give without lines
          Proposed,     \* numbers a request proposes for a proposition
          NumberLimit,  \* 10000 for quotes and invoices, 1000 for propositions
          Attempts      \* 3

ASSUME DocsAssumption ==
    /\ IsFiniteSet(Docs) /\ None \notin Docs /\ Proposed \subseteq Nat \ {0}
    /\ NumberLimit \in Nat \ {0} /\ Attempts \in Nat \ {0}

VARIABLES
    doc,        \* doc[d]: a row of devis, factures or propositions
    writing,    \* writing[h]: a request on a document under way
    removed,    \* history: kinds and years a document was removed or proposed in
    refusals    \* history: why creations were refused

docVars == <<doc, writing, removed, refusals>>

DocKinds == {"devis", "facture", "proposition"}
NoDoc    == [state |-> "absent", kind |-> None, year |-> None, n |-> None, date |-> None,
             content |-> None, totals |-> None, status |-> "draft", free |-> FALSE]
IdleWriting == [pc |-> "idle", target |-> None, row |-> NoDoc, tries |-> 0, rivals |-> 0,
                full |-> FALSE]

DocsInit == /\ doc = [d \in Docs |-> NoDoc]
            /\ writing = [h \in Handlers |-> IdleWriting]
            /\ removed = {} /\ refusals = {}

Drawn(d)  == doc[d].state = "there"
Of(k, y)  == {d \in Docs : Drawn(d) /\ doc[d].kind = k /\ doc[d].year = y}
TakenNo(row) == \E d \in Of(row.kind, row.year) : doc[d].n = row.n

----------------------------------------------------------------------------
(* Totals *)

\* round2 of a quotient.
RoundDiv(a, b) == (2 * a + b) \div (2 * b)

\* compute, totalsFromLinesAndTaux.
TotalsOf(c) ==
    LET ht  == FoldLeft(LAMBDA sum, l : sum + l.q * l.p, 0, c.lines)
        tva == RoundDiv(ht * c.rate, 100)
    IN  [ht |-> ht, tva |-> tva, ttc |-> ht + tva]

----------------------------------------------------------------------------
(* Creation *)

Start(h, w)  == writing[h].pc = "idle" /\ Begins /\ writing' = [writing EXCEPT ![h] = w]
Goes(h, w)   == writing' = [writing EXCEPT ![h] = w]
Ends(h)      == Goes(h, IdleWriting)
Unclaimed(d) ==
    LET free == {x \in Docs : doc[x].state = "absent" /\ \A o \in Handlers : writing[o].target # x}
    IN  free # {} /\ d = AnyOf(free)

Draft(k, y, c) == [NoDoc EXCEPT !.state = "there", !.kind = k, !.year = y, !.date = y,
                                !.content = c, !.totals = TotalsOf(c)]

\* pickNumero: a proposition may bring its number, again at every attempt.
Numbered(w, n) == [w EXCEPT !.pc = "insert", !.row.n = n, !.row.free = TRUE]

\* create of the three services.
CreateDoc(h) ==
    /\ \E d \in Docs, k \in DocKinds, y \in DocYears, c \in Contents :
          LET w == [IdleWriting EXCEPT !.pc = "number", !.target = d, !.row = Draft(k, y, c)]
          IN  /\ Unclaimed(d)
              /\ \/ Start(h, w)
                 \/ k = "proposition" /\ \E n \in Proposed : Start(h, Numbered(w, n))
    /\ UNCHANGED <<doc, removed, refusals, faults>>

\* fromDevis: the quote is read, then its lines, other lines or bare totals make
\* the invoice; the totals of other lines are computed.
ConvertQuote(h) ==
    /\ \E q, d \in Docs :
          /\ Drawn(q) /\ doc[q].kind = "devis" /\ Unclaimed(d)
          /\ \E row \in {[doc[q] EXCEPT !.kind = "facture"]}
                          \cup {Draft("facture", doc[q].date, c) : c \in Contents}
                          \cup {[doc[q] EXCEPT !.kind = "facture", !.free = TRUE, !.totals = t]
                                  : t \in FreeTotals} :
                Start(h, [IdleWriting EXCEPT !.pc = "number", !.target = d,
                            !.row = [row EXCEPT !.year = doc[q].date, !.date = doc[q].date,
                                                !.status = "draft", !.n = None]])
    /\ UNCHANGED <<doc, removed, refusals, faults>>

\* mutant: the numbers of every year are looked at.
HighestEver(k, y) == Max({0} \cup {doc[d].n % NumberLimit :
                              d \in {x \in Docs : Drawn(x) /\ doc[x].kind = k}})
\* mutant: without documents the first number is zero.
HighestFromZero(k, y) == Max({-1} \cup {doc[d].n % NumberLimit : d \in Of(k, y)})
\* nextNumero: the highest of the year, by its last digits.
Highest(k, y) == Max({0} \cup {doc[d].n % NumberLimit : d \in Of(k, y)})

NextNumero(h) ==
    /\ writing[h].pc = "number"
    /\ LET w == writing[h]
       IN  \/ /\ Answers
              /\ Goes(h, [w EXCEPT !.pc = "insert",
                                   !.row.n = Highest(w.row.kind, w.row.year) + 1])
           \/ Fails /\ Ends(h)
    /\ UNCHANGED <<doc, removed, refusals, calls>>

\* Others of the same kind and year that this insert may be in the way of.
Passed(h, row) ==
    [o \in Handlers |->
        IF o # h /\ writing[o].pc \in {"number", "insert"} /\ writing[o].row.kind = row.kind
                 /\ writing[o].row.year = row.year
        THEN [writing[o] EXCEPT !.rivals = @ + 1] ELSE writing[o]]

\* Why a creation is refused, as the history tells it: full when the digits read back
\* ran out at an earlier attempt.
Reason(w) ==
    CASE w.row.kind = "proposition" /\ w.row.free -> "proposed number taken"
      [] w.full \/ w.row.n >= NumberLimit         -> "numbers exhausted"
      [] w.rivals >= Attempts                     -> "contention"
      [] OTHER                                    -> "unexplained"

\* A duplicate is tried again, a proposed number too; any other error ends it.
InsertDoc(h) ==
    /\ writing[h].pc = "insert"
    /\ LET w == writing[h]
       IN  \/ /\ ~TakenNo(w.row) /\ Answers
              /\ doc' = [doc EXCEPT ![w.target] = w.row]
              /\ writing' = [Passed(h, w.row) EXCEPT ![h] = IdleWriting]
              /\ removed' = IF w.row.kind = "proposition" /\ w.row.free
                            THEN removed \cup {<<w.row.kind, w.row.year>>} ELSE removed
              /\ UNCHANGED refusals
           \/ /\ TakenNo(w.row) /\ w.tries + 1 < Attempts /\ Answers
              /\ Goes(h, [w EXCEPT !.tries = @ + 1, !.full = @ \/ w.row.n >= NumberLimit,
                            !.pc = IF Reason(w) = "proposed number taken" THEN "insert"
                                   ELSE "number"])
              /\ UNCHANGED <<doc, removed, refusals>>
           \/ /\ TakenNo(w.row) /\ w.tries + 1 = Attempts /\ Answers /\ Ends(h)
              /\ refusals' = refusals \cup {Reason(w)} /\ UNCHANGED <<doc, removed>>
           \/ Fails /\ Ends(h) /\ UNCHANGED <<doc, removed, refusals>>
    /\ UNCHANGED calls

----------------------------------------------------------------------------
(* patch, updateStatus, remove: the row is read, then written *)

EditDoc(h) ==
    /\ \E d \in Docs, pc \in {"patch", "status", "delete"} :
          /\ Drawn(d)
          /\ \E y \in DocYears, c \in Contents :
                Start(h, [IdleWriting EXCEPT !.pc = pc, !.target = d,
                            !.row = IF pc = "patch" THEN Draft(doc[d].kind, y, c) ELSE doc[d]])
    /\ UNCHANGED <<doc, removed, refusals, faults>>

\* The date may move to another year; the number stays.
Patched(row, new) == [row EXCEPT !.date = new.date, !.content = new.content,
                                 !.totals = new.totals,
                                 !.free = @ /\ row.kind = "proposition"]

PatchDoc(w) == /\ w.pc = "patch" /\ UNCHANGED removed
               /\ doc' = [doc EXCEPT ![w.target] = Patched(doc[w.target], w.row)]

UpdateStatus(w) == /\ w.pc = "status" /\ UNCHANGED removed
                   /\ doc' = [doc EXCEPT ![w.target].status = "sent"]

RemoveDoc(w) == /\ w.pc = "delete"
                /\ doc' = [doc EXCEPT ![w.target] = [NoDoc EXCEPT !.state = "gone"]]
                /\ removed' = removed \cup {<<doc[w.target].kind, doc[w.target].year>>}

WriteDoc(h) ==
    /\ writing[h].pc \in {"patch", "status", "delete"}
    /\ LET w == writing[h]
       IN  \/ Drawn(w.target) /\ Answers /\ (PatchDoc(w) \/ UpdateStatus(w) \/ RemoveDoc(w))
           \/ (IF Drawn(w.target) THEN Fails ELSE Answers) /\ UNCHANGED <<doc, removed>>
    /\ Ends(h) /\ UNCHANGED <<refusals, calls>>

DocsNext == \E h \in Handlers : \/ CreateDoc(h) \/ ConvertQuote(h) \/ NextNumero(h)
                                \/ InsertDoc(h) \/ EditDoc(h) \/ WriteDoc(h)

DocsSpec == DocsInit /\ calls = 0 /\ faults = 0 /\ [][DocsNext]_<<docVars, counters>>

----------------------------------------------------------------------------
(* Properties *)

\* Types of the rows, the requests and the history.
DocsTypeOK ==
    /\ \A d \in Docs : Drawn(d) =>
          /\ doc[d].kind \in DocKinds /\ doc[d].year \in DocYears /\ doc[d].date \in DocYears
          /\ doc[d].n \in Nat \ {0} /\ doc[d].status \in {"draft", "sent"}
          /\ doc[d].content \in Contents /\ doc[d].free \in BOOLEAN
    /\ \A h \in Handlers :
          /\ writing[h].pc \in {"idle", "number", "insert", "patch", "status", "delete"}
          /\ writing[h].target \in Docs \cup {None}
          /\ writing[h].tries \in 0 .. Attempts - 1
    /\ removed \subseteq DocKinds \X DocYears

\* The numbers of a kind and year are 1, 2, 3, ... without a gap, in whatever order
\* requests read and insert them, until a document is removed or brings its own
\* number; no number is given twice; a creation is refused only when as many others
\* came between as it has attempts, its own number was taken, or the digits read back
\* run out; and the totals of a document are those of its lines and rate, also after a
\* conversion or a patch, unless a conversion gave bare totals.
DocumentsAddUp ==
    /\ \A k \in DocKinds, y \in DocYears :
          LET numbers == {doc[d].n : d \in Of(k, y)}
          IN  /\ Cardinality(numbers) = Cardinality(Of(k, y))
              /\ <<k, y>> \notin removed => numbers = 1 .. Cardinality(numbers)
    /\ "unexplained" \notin refusals
    /\ \A d \in Docs : Drawn(d) /\ ~(doc[d].kind = "facture" /\ doc[d].free) =>
                          doc[d].totals = TotalsOf(doc[d].content)
=============================================================================
