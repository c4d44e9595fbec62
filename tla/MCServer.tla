------------------------------ MODULE MCServer ------------------------------
(* Small instances of Server for TLC. *)
EXTENDS Server, TLC

MCStart == [cols |-> 3, rows |-> 3]
MCSizes == {NoSize, [cols |-> 4, rows |-> 2], [cols |-> 2, rows |-> 4]}

\* Several or one at a time.
Either == [multi : BOOLEAN, follows : {"active"}]

\* One at a time, always.
OneAtATime == [multi : {FALSE}, follows : {"active"}]

\* Several terminals at once, under each sizing policy, or one at a time.
AnyPolicy == [multi : {TRUE}, follows : Policies] \cup OneAtATime

\* What a peer does is visible to the loop at its system calls only, and what
\* a connection's read finds besides what poll() saw it could as well have
\* found, or been left to find, by an act before this poll or the next.  So
\* peers act between cycles.
MCNext == (mode = "poll" /\ Peers) \/ Loop

MCSpec == Init /\ [][MCNext]_vars

MCFairSpec == MCSpec /\ WF_vars(Loop) /\ SF_vars(EscTimeout) /\ SF_vars(Reload)

OneSize == {[cols |-> 4, rows |-> 2]}

Symm == Permutations(Fds)
=============================================================================
