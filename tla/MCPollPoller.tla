---------------------------- MODULE MCPollPoller ----------------------------
(* The channels of a loop that accepts and serves: its own, an Acceptor's  *)
(* and those of three connections, of which connA2 is accepted on the      *)
(* descriptor that connA had.                                              *)
EXTENDS PollPoller

CONSTANTS acceptor, connA, connB, connA2

MCFdOf ==
    [c \in Channels |->
        CASE c = Wakeup -> 3
          [] c = acceptor -> 4
          [] c \in {connA, connA2} -> 5
          [] c = connB -> 6]
=============================================================================
