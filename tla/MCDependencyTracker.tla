------------------------ MODULE MCDependencyTracker -------------------------
(* Two XRs, two kinds; references by name and by label, within a namespace *)
(* and across all, alone, together and twice.                              *)
EXTENDS DependencyTracker, TLC

CONSTANTS A, B, ns, n1, red, s1

byNameInNs == [gvk |-> A, namespace |-> ns, name |-> n1, labels |-> {}]
byNameCluster == [gvk |-> B, namespace |-> NoNamespace, name |-> n1, labels |-> {}]
byLabelAny == [gvk |-> A, namespace |-> NoNamespace, name |-> NoName, labels |-> {red}]
byLabelInNs == [gvk |-> A, namespace |-> ns, name |-> NoName, labels |-> {}]

MCComposed == {<<>>, <<byNameInNs>>, <<byNameCluster, byNameInNs>>}
MCRequirement == {[step |-> s1, reference |-> r] :
                     r \in {byNameInNs, byNameCluster, byLabelAny, byLabelInNs}}
MCRequired == {<<>>} \cup {<<r>> : r \in MCRequirement}
                     \cup {<<q, r>> : q, r \in MCRequirement}
=============================================================================
