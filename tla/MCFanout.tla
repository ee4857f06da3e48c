------------------------------- MODULE MCFanout -------------------------------
(* Instances of Fanout for TLC. *)
EXTENDS Fanout, TLC

CONSTANTS own, ann, bob, share, reply, ask, call, tell

\* own shares a secret, bob replies to it, ann writes to the admins, bob to the configured
\* one, own writes to ann.
MCKind   == share :> "share" @@ reply :> "reply" @@ ask :> "admins" @@ call :> "admin" @@
            tell :> "toUser"
MCSender == share :> own @@ reply :> bob @@ ask :> ann @@ call :> bob @@ tell :> own
Both     == 1 :> ann @@ 2 :> own
OnlyAnn  == 1 :> ann @@ 2 :> None
MCTold   == share :> OnlyAnn @@ reply :> OnlyAnn @@ ask :> Both @@ call :> OnlyAnn @@
            tell :> OnlyAnn
MCSame   == {<<u, u>> : u \in {own, ann, bob}}
MCFound  == {<<>>, <<ann, bob>>, <<own, ann>>}
==============================================================================
