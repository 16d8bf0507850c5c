------------------------------- MODULE MCAof --------------------------------
(* A plain write in one database and a transaction in another; appendfsync   *)
(* always and everysec; two clients.                                         *)
EXTENDS Aof, TLC
CONSTANTS ca, cb

MCAfCmds == {<<0, FALSE>>, <<1, TRUE>>}
MCMaxWrites == [p \in Policies |-> IF p = "always" THEN 2 ELSE 1]
AfSymm == Permutations({ca, cb})

\* One client at a time, whose replies are sent at once, so that the file takes
\* all its ways; and one write, so that the clients take all theirs.
FilesNext == /\ AofNext
             /\ afHandler' = NoHandlers
             /\ Cardinality({c \in AfClients : c \in afRead' \/ afReply'[c] # {}}) < 2
ClientsNext == AofNext /\ afNext' <= 2
=============================================================================
