----------------------------- MODULE MCKeyspace -----------------------------
(* Small instances of Keyspace: one connection transacts, two block; two     *)
(* names in database 0, one of them also used in database 1.                 *)
EXTENDS Keyspace, TLC
CONSTANTS na, nb, el, str, cw, ct, cb1, cb2
ka == <<0, na>>
kb == <<0, nb>>
kz == <<1, na>>
Rpush(k) == [op |-> "push", k |-> k, v |-> el, at |-> "tail", xx |-> FALSE]
Lpop(k) == [op |-> "pop", k |-> k, at |-> "head"]
Expire(k, n) == [op |-> "expire", k |-> k, ticks |-> n]
Lmove == [op |-> "lmove", k |-> kb, dst |-> ka, at |-> "head", to |-> "tail"]
Blpop(keys, n) == [op |-> "blpop", keys |-> keys, at |-> "head", timeout |-> n]
Blmove == [op |-> "blmove", k |-> kb, dst |-> ka, at |-> "tail", to |-> "head",
           timeout |-> 0]
MCCmds == {Rpush(ka), Rpush(kb), Rpush(kz), Lpop(ka), Lmove,
    [op |-> "del", k |-> ka], [op |-> "set", k |-> ka],
    Expire(ka, 0), Expire(ka, 1), [op |-> "persist", k |-> ka],
    [op |-> "rename", k |-> kb, dst |-> ka], [op |-> "move", k |-> kz, dst |-> ka],
    [op |-> "flushall"], [op |-> "swapdb"], [op |-> "pause"],
    Blpop(<<ka>>, 1), Blpop(<<ka, kb>>, 0), Blmove}
MCTxCmds == {Rpush(kb), Expire(ka, 1), Blpop(<<ka>>, 1)}
MCTxPause == {Rpush(ka), [op |-> "pause"]}
MCPauseCmds == {Blpop(<<ka>>, 0)}
MCWatches == {{ka}, {kb}}
\* At most MaxTogether of these at a time, besides blocked clients and lists.
CONSTANT MaxTogether
Together ==
    LET yes(x) == IF x THEN 1 ELSE 0
    IN  yes(\E c \in Transactors : conn[c] # Idle) + yes(paused)
        + yes(\E k \in Key : ttl[k] # Never) + yes(\E k \in Key : db[k] = Str)
        + yes(db[kz] # <<>>) + yes(\A c \in Blockers : ~Ready(c)) <= MaxTogether
Symm == Permutations({cb1, cb2})
=============================================================================
