------------------------------ MODULE MCKillPath ------------------------------
(* Init (1), a process of two threads (2 and 3), a process of one thread   *)
(* (4) in a group with it, the caller (5), and a task that will be forked  *)
(* (6).                                                                    *)
EXTENDS KillPath

MCTasks == 1 .. 6
MCNr == [t \in MCTasks |-> IF t = 6 THEN 0 ELSE t]
MCGroup == [t \in MCTasks |-> IF t = 3 THEN 2 ELSE t]
MCSession == [t \in MCTasks |-> IF t \in {2, 3, 5} THEN 2 ELSE 1]
MCPgrp == [t \in MCTasks |-> IF t \in {2, 3, 4} THEN 2 ELSE t]

Root == [uid |-> 0, euid |-> 0, suid |-> 0, ns |-> 1]
User == [uid |-> 1, euid |-> 1, suid |-> 1, ns |-> 1]
(* A set-user-ID program of another user, which has given the right up.    *)
Setuid == [uid |-> 2, euid |-> 1, suid |-> 2, ns |-> 1]
Inside == [uid |-> 1, euid |-> 1, suid |-> 1, ns |-> 2]
MCCreds ==
    [t \in MCTasks |-> CASE t = 1 -> {Root}
                         [] t = 2 -> {User, Setuid}
                         [] t = 3 -> {User, Inside}
                         [] t = 5 -> {Setuid, User}
                         [] OTHER -> {User}]
=============================================================================
