----------------------------- MODULE MCChannel -----------------------------
(***************************************************************************)
(* Small instances of Channel.                                              *)
(***************************************************************************)
EXTENDS Channel, TLC

\* The control blocks are interchangeable, and so are the transport threads.
MCSymmetry == Permutations(Channel) \cup Permutations(Thread)

\* At most one of the two calls fails in one handler.
MCOutcome ==
  {[epoll |-> e, queued |-> q] : e \in BOOLEAN, q \in BOOLEAN}
    \ {[epoll |-> FALSE, queued |-> FALSE]}

\* Nothing fails.
MCSuccess == {[epoll |-> TRUE, queued |-> TRUE]}

\* For safety a peer that falls silent is one that could speak and does not, and
\* channels on one thread, which handles them one after the other, do less than
\* channels on different ones.
Reduced ==
  /\ \A c \in Channel : ch[c].peer # "mute"
  /\ \A c, e \in Channel : ch[c].thr = ch[e].thr => c = e \/ ch[c].thr = App
=============================================================================
