----------------------------- MODULE MCComposer -----------------------------
(* Small instances of Composer: a resource name a, and one b of two kinds.  *)
EXTENDS Composer, TLC

CONSTANTS a1, b1, b2

MCObjects == {a1, b1, b2}
MCNameOf == a1 :> "a" @@ b1 :> "b" @@ b2 :> "b"
=============================================================================
