----------------------------- MODULE Statements -----------------------------
(***************************************************************************)
(* What every service shares: the database client of supabase.service.ts   *)
(* and the requests that reach the program.                                *)
(*                                                                         *)
(* A statement is atomic.  It either answers, or returns {error}; the same *)
(* holds for a call to another service (Google, ClickUp, Meta, Cloudinary, *)
(* a mail server).  Each failure spends one unit of MaxFaults, each        *)
(* request one unit of MaxCalls.                                           *)
(***************************************************************************)
EXTENDS Integers, FiniteSets

CONSTANTS None,         \* null
          Handlers,     \* requests that may be under way together
          MaxCalls,     \* bound: requests
          MaxFaults     \* bound: failing statements and calls

VARIABLES calls, faults

counters == <<calls, faults>>

\* Ids are drawn at random: any unused one will do.
AnyOf(S) == CHOOSE x \in S : TRUE

\* ORDER BY: the rows of S as a list, any two of them as R has them.
Ordered(S, R) ==
    CHOOSE s \in [1..Cardinality(S) -> S] : \A i, j \in DOMAIN s : i < j => <<s[i], s[j]>> \in R

\* The sum of the counts f[x]: the number of pairs of an x and a number up to f[x].
SumOf(f) == Cardinality(UNION {{x} \X (1..f[x]) : x \in DOMAIN f})

Begins  == calls < MaxCalls /\ calls' = calls + 1
Answers == UNCHANGED faults
Fails   == faults < MaxFaults /\ faults' = faults + 1
=============================================================================
