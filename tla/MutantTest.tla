------------------------------ MODULE MutantTest ------------------------------
(***************************************************************************)
(* What the test driver relies on when it has one mutant tested: the files *)
(* on disk are touched during a test only, a test that ends has put them   *)
(* back and has a result for its mutant, for mutants that have no verdict, *)
(* or for nobody; a test that cannot go on stops the session.              *)
(***************************************************************************)
CONSTANTS Mutant, Status

VARIABLES
    phase,    \* "stopped", "ready" or the mutant under test
    dirty,    \* the files on disk are not the original ones
    verdict,  \* of each mutant
    sent      \* the results of the last test that are not yet saved

vars == <<phase, dirty, verdict, sent>>

Init ==
    /\ phase = "stopped" /\ dirty = FALSE
    /\ verdict = [m \in Mutant |-> "unknown"] /\ sent = {}

\* A session whose sanity check found the original files.
Start == phase = "stopped" /\ ~dirty /\ phase' = "ready" /\ UNCHANGED <<dirty, verdict, sent>>

Test ==
    /\ phase = "ready" /\ sent = {}
    /\ phase' \in Mutant
    /\ UNCHANGED <<dirty, verdict, sent>>

Touch == phase \in Mutant /\ dirty' \in BOOLEAN /\ UNCHANGED <<phase, verdict, sent>>

\* The mutants in covered have no verdict, and need none while this one lives.
Result ==
    /\ phase \in Mutant /\ ~dirty
    /\ phase' = "ready"
    /\ \E st \in Status, covered \in SUBSET {m \in Mutant : verdict[m] = "unknown"} :
          sent' = {[id |-> phase, st |-> st]} \cup [id : covered \ {phase}, st : {"skipped"}]
    /\ UNCHANGED <<dirty, verdict>>

NoResult == phase \in Mutant /\ ~dirty /\ phase' = "ready" /\ UNCHANGED <<dirty, verdict, sent>>

\* A result is saved; a mutant is skipped only while it has no verdict.
Save ==
    \E r \in sent :
        /\ r.st = "skipped" => verdict[r.id] = "unknown"
        /\ sent' = sent \ {r}
        /\ verdict' = [verdict EXCEPT ![r.id] = r.st]
        /\ UNCHANGED <<phase, dirty>>

\* An error, the end of the session, or the end of the process, and what is not
\* saved is lost.
Stop == phase # "stopped" /\ phase' = "stopped" /\ sent' = {} /\ UNCHANGED <<dirty, verdict>>

\* Somebody puts the original files back.
Repair == phase = "stopped" /\ dirty' = FALSE /\ UNCHANGED <<phase, verdict, sent>>

Next == Start \/ Test \/ Touch \/ Result \/ NoResult \/ Save \/ Stop \/ Repair

Spec == Init /\ [][Next]_vars
=============================================================================
