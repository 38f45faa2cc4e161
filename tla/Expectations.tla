---------------------------- MODULE Expectations ----------------------------
(***************************************************************************)
(* What a virt-controller expects to see of its own calls in its informers *)
(* (kubevirt pkg/controller/expectations.go): the counts of creations and  *)
(* deletions that were not observed yet, and the keys of the objects whose *)
(* deletion is expected. One controller key, whose expectations are a      *)
(* value that the methods take and return; each of them is atomic, by      *)
(* atomic.Int64, the store's lock or uidStoreLock.                         *)
(***************************************************************************)
EXTENDS Integers, FiniteSets

\* Expectations of the deletion of some of Keys.
Expectation(Keys) ==
    [set : BOOLEAN,      \* whether the store has an entry at all
     add : Int,          \* creations not yet observed
     del : Int,          \* deletions not yet observed
     expired : BOOLEAN,  \* ExpectationsTimeout has passed since it was set
     uids : SUBSET Keys] \* uidStore: the keys of the expected deletions

\* No entry. DeleteExpectations leaves this, whatever was expected.
NoExpectation ==
    [set |-> FALSE, add |-> 0, del |-> 0, expired |-> FALSE, uids |-> {}]

\* Mutant of Fulfilled: deletions are not waited for.
Fulfilled_AddOnly(e) == e.add <= 0

Fulfilled(e) == e.add <= 0 /\ e.del <= 0

\* Mutant of SatisfiedExpectations: a key without an entry is waited for.
SatisfiedExpectations_IfSet(e) == e.set /\ (Fulfilled(e) \/ e.expired)

SatisfiedExpectations(e) == e.set => Fulfilled(e) \/ e.expired

\* SetExpectations forgets what was expected before, and sets the time anew. The
\* uidStore is another store, which it leaves alone.
SetExpectations(e, add, del) ==
    [set |-> TRUE, add |-> add, del |-> del, expired |-> FALSE, uids |-> e.uids]

ExpectCreations(e, n) == SetExpectations(e, n, 0)

ExpectDeletions(e, keys) ==
    [SetExpectations(e, 0, Cardinality(keys)) EXCEPT !.uids = keys]

CreationObserved(e) == IF e.set THEN [e EXCEPT !.add = @ - 1] ELSE e

\* Mutant of DeletionObserved: the key is struck off, the count is not lowered.
DeletionObserved_NotCounted(e, k) == [e EXCEPT !.uids = @ \ {k}]

\* Only an expected key counts, and only once.
DeletionObserved(e, k) ==
    IF k \in e.uids
        THEN [e EXCEPT !.del = @ - 1, !.uids = @ \ {k}]
        ELSE e
=============================================================================
