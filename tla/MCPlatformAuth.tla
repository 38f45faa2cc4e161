--------------------------- MODULE MCPlatformAuth ---------------------------
(* Small instances of PlatformAuth: one address in two spellings.          *)
EXTENDS PlatformAuth, TLC

MCRawEmails == {"A@x", "a@x"}
MCEmails == {"a@x"}
MCNormalized == [e \in MCRawEmails |-> "a@x"]
MCLimit == [l \in Limiters |-> IF l = "general" THEN 3 ELSE 2]
Symmetric == Permutations(Requests) \cup Permutations(Passwords)
=============================================================================
