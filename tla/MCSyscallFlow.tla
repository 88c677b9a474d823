--------------------------- MODULE MCSyscallFlow ---------------------------
EXTENDS SyscallFlow
\* Guests that make every kind of call, and those that leave out what a host
\* does not serve.
KindSets == {Kinds, Kinds \ {"ptrace"}, Kinds \ {"late"}, Kinds \ Trapped}
MCAll == [order : {"old", "new"}, filter : BOOLEAN, trapsVoid : BOOLEAN,
          skips : BOOLEAN, canSet : BOOLEAN, kinds : KindSets]
MCHosts == {h \in MCAll : Served(h)}
\* The three cases left out, each on a guest that makes every kind of call.
MCStuck == {h \in MCAll : ~h.canSet /\ h.filter /\ h.order = "old" /\ h.kinds = Kinds}
MCSkipped == {h \in MCAll : /\ h.trapsVoid /\ h.skips /\ h.canSet /\ h.filter
                            /\ h.order = "new" /\ h.kinds = Kinds}
MCStale == {h \in MCAll : /\ ~h.trapsVoid /\ h.canSet /\ h.filter
                          /\ h.order = "new" /\ h.kinds = Kinds}
=============================================================================
