------------------------- MODULE MC_FiberScheduler --------------------------
(* Small instances of FiberScheduler: the main fiber and two others, one   *)
(* condition in memory and one or two kernel handles.                      *)
EXTENDS FiberScheduler

CONSTANTS main, f, g, c, h, h2

MCFibers == {main, f, g}
MCSymmetry == Permutations({f, g})
MCMems == {c}
MCHandles == {h}

(* Every call whose effect is as documented; a handle stays ready here and *)
(* is drained by the ServerCalls below.                                    *)
AllCalls == {"WaitForMany", "Yield", "SwitchTo", "Start", "Stop", "Resume", "Kill",
             "Shutdown", "BlockShutdown", "Join", "Finish",
             "Notify", "Signal"}
AllWaits == {{c}, {h, OnShutdown}}

(* At most one fiber at a time blocks its shutdown. *)
OneBlocks == \A x, y \in Fibers : block_shutdown[x] > 0 /\ block_shutdown[y] > 0 => x = y

(* Programs for the liveness properties: waits for two handles, and turns  *)
(* taken with Yield.                                                       *)
TwoHandles == {h, h2}
EachHandle == {{h}, {h2}}
ServerCalls == {"WaitForMany", "Start", "Finish", "Drain"}
TurnCalls == {"Yield", "Start"}
=============================================================================
