---------------------------- MODULE MC_Pmempool ----------------------------
(* The pmempool tool: a behaviour is a "pmempool check" of a spoiled pool     *)
(* (PmempoolCheck) or one invocation of another command (PmempoolCmds).      *)
(*                                                                           *)
(* check: log pools, and pmemblk pools of two arenas.                        *)
(* Command lines: every form of range, alone and in pairs and triples that   *)
(* overlap, touch, nest and are out of order; every option of create.        *)
EXTENDS PmempoolCheck, PmempoolCmds

VARIABLE command

MCLibSeqs == {<<1, 0>>, <<3, 2>>}

Tokens ==
  [form : {"from_to"}, a : {1, 3, 5}, b : {2, 4, 9}]
    \cup [form : {"from", "number"}, a : {0, 2, 4, 9}]
    \cup [form : {"to"}, b : {1, 3, 9}] \cup [form : {"junk"}]
Three == [form : {"number", "from"}, a : {0, 3}] \cup [form : {"from_to"}, a : {1}, b : {2, 4}]
Lists == {<< >>} \cup {<<t>> : t \in Tokens} \cup {<<t, u>> : t, u \in Tokens}
           \cup {<<t, u, v>> : t, u, v \in Three}

Base == [cmd |-> "dump", files |-> <<"l">>, toks |-> << >>, chunk |-> 0, show |-> {},
         skip |-> {}, type |-> "none", bsize |-> -1, inherit |-> "none", size |-> 0,
         max |-> FALSE, layout |-> -1]

Dumps == {[Base EXCEPT !.files = <<f>>, !.toks = l, !.chunk = c] :
            f \in {"l", "b", "j"}, l \in Lists, c \in {0, 2}}
Infos == {[Base EXCEPT !.cmd = "info", !.files = f, !.toks = l, !.show = {"data", "stats"}, !.skip = k] :
            f \in {<<"l">>, <<"l2", "l">>, <<"b", "j">>}, l \in Lists, k \in {{}, {"zeros"}}}
InfosW == {[Base EXCEPT !.cmd = "info", !.files = <<"l">>, !.toks = l, !.show = {"data"}, !.chunk = 2,
              !.skip = k] : l \in {<< >>} \cup {<<t>> : t \in Tokens}, k \in {{"error"}, {"noflag"}}}
Creates ==
  {[Base EXCEPT !.cmd = "create", !.files = <<f>>, !.type = t, !.bsize = b, !.inherit = i,
                !.size = n, !.max = m, !.layout = l] :
     f \in {"n", "z", "j"}, t \in {"none", "log", "blk", "unknown"}, b \in {-1, 0, 2, 4, 6, 11},
     i \in {"none", "l", "b", "j"}, n \in {0, 10, 36, 40, 60}, m \in BOOLEAN, l \in {-1, 0, 7}}
AllSizes ==
  {[Base EXCEPT !.cmd = "create", !.files = <<"n">>, !.type = "blk", !.bsize = b, !.size = n] :
     b \in 0 .. 11, n \in 32 .. 70}
MCInvocations == Dumps \cup Infos \cup InfosW \cup Creates \cup AllSizes \cup {[Base EXCEPT !.cmd = "nonsense"]}

MCFs ==
  ("l" :> [kind |-> "log", size |-> 40, cap |-> 7, used |-> 5])
    @@ ("l2" :> [kind |-> "log", size |-> 40, cap |-> 7, used |-> 3])
    @@ ("b" :> [kind |-> "blk", size |-> 60, bsize |-> 2, laid |-> TRUE,
                arenas |-> <<<<"normal", "initial", "zero">>, <<"error", "normal">>>>])
    @@ ("j" :> [kind |-> "junk", size |-> 40])
    @@ ("z" :> [kind |-> "zero", size |-> 40])
    @@ ("n" :> [kind |-> "absent"])

NoCommand == [Base EXCEPT !.cmd = "nonsense"]

MCInit ==
    \/ command = "check" /\ CheckInit /\ inv = NoCommand /\ CmdStart
    \/ command = "other" /\ CmdInit /\ file = GoodPool("log", <<1, 0>>) /\ ToolIdle

MCNext ==
    \/ command = "check" /\ CheckNext /\ UNCHANGED <<command, cmd_vars>>
    \/ command = "other" /\ CmdNext /\ UNCHANGED <<command, chk_vars>>

MCSpec == MCInit /\ [][MCNext]_<<command, chk_vars, cmd_vars>>
=============================================================================
