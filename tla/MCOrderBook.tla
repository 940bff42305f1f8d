---- MODULE MCOrderBook ----
EXTENDS OrderBookPriority
MCInside == 0 .. LADDER_SIZE - 1
MCPrices == -1 .. LADDER_SIZE

\* Every handle there is; MAX_ORDERS stands for all numbers that are not a slot.
MCHandles == [slot : 0 .. MAX_ORDERS, gen : 0 .. GEN_MOD - 1]

\* For the long sweeps, where few slots are used twice: the first handle of every
\* slot.
MCFirstHandles == {h \in MCHandles : h.slot \in Slots /\ h.gen = 0}
=============================
