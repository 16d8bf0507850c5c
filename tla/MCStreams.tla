----------------------------- MODULE MCStreams ------------------------------
(* Small instances of Streams: one group, two consumers, two or three IDs.   *)
EXTENDS Streams, TLC
CONSTANTS gg, ca, cb
Cut(by, n, approx) == [by |-> by, n |-> n, approx |-> approx]
Xadd(trim) == [op |-> "xadd", id |-> 0, trim |-> trim]
Xgroup(op, id, c) == [op |-> op, g |-> gg, id |-> id, c |-> c]
Xclaim(c, ids, minidle, force, justid) ==
    [op |-> "xclaim", g |-> gg, c |-> c, ids |-> ids, minidle |-> minidle,
     force |-> force, justid |-> justid, lastid |-> 0, retry |-> 0,
     idle |-> FALSE]
Xautoclaim(c, start, count, minidle) ==
    [op |-> "xautoclaim", g |-> gg, c |-> c, start |-> start, count |-> count,
     minidle |-> minidle, justid |-> TRUE]
Xreadgroup(c, history, noack, count) ==
    [g |-> gg, c |-> c, history |-> history, noack |-> noack, count |-> count]
MCXCmds ==
    {Xadd(NoTrim), Xadd(Cut("maxlen", 1, TRUE)), Xadd(Cut("minid", 2, TRUE)),
     [op |-> "xtrim", trim |-> Cut("maxlen", 1, FALSE)],
     [op |-> "xdel", id |-> 1], [op |-> "xsetid", id |-> 2], [op |-> "del"],
     Xgroup("create", 0, Nobody), Xgroup("create", Top, Nobody),
     Xgroup("setid", 0, Nobody), Xgroup("destroy", 0, Nobody),
     Xgroup("createconsumer", 0, ca), Xgroup("delconsumer", 0, ca),
     [op |-> "xack", g |-> gg, id |-> 1],
     Xclaim(cb, <<1, 2>>, TRUE, FALSE, FALSE), Xclaim(ca, <<1>>, FALSE, TRUE, TRUE),
     Xautoclaim(ca, 1, 1, TRUE)}
MCXTxs == {<<Xgroup("setid", 0, Nobody), Xadd(NoTrim)>>,
           <<Xadd(NoTrim), [op |-> "xdel", id |-> 1]>>,
           <<Xgroup("destroy", 0, Nobody), Xgroup("create", Top, Nobody)>>}
MCXReads == {Xreadgroup(ca, FALSE, FALSE, 1), Xreadgroup(cb, FALSE, FALSE, 0),
             Xreadgroup(cb, FALSE, TRUE, 1), Xreadgroup(ca, TRUE, FALSE, 0)}
            \cup {[g |-> Nobody, c |-> cb, history |-> FALSE, noack |-> FALSE,
                   count |-> 0]}
MCNodeSize == [slave \in BOOLEAN |-> IF slave THEN 1 ELSE 2]
=============================================================================
