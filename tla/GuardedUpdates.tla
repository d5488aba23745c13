--------------------------- MODULE GuardedUpdates ---------------------------
(***************************************************************************)
(* What igp-oracle promises to the chains it writes to, without saying how *)
(* it reads, decides or submits.  Owners change gas data and overheads as  *)
(* they like.  The tool changes one entry of one gas oracle at a time, and *)
(* what it writes is a change within the policy from values that the chain *)
(* has really held: the latest ones, or ones that are out of date by now.  *)
(***************************************************************************)
EXTENDS IgpPolicy

CONSTANTS Origins, Oracles, Domains, Home

VARIABLES
  data,          \* [oracle -> [domain -> price and rate]]
  overhead,      \* [origin -> [domain -> overhead]]
  pastData,      \* [oracle -> [domain -> the prices and rates it has held]]
  pastOverheads, \* [origin -> [domain -> the overheads it has had]]
  done           \* tokens of the writes made by the tool

gvars == <<data, overhead, pastData, pastOverheads, done>>

GuardedInit ==
  /\ pastData = [a \in Oracles |-> [d \in Domains |-> {data[a][d]}]]
  /\ pastOverheads = [o \in Origins |-> [d \in Domains |-> {overhead[o][d]}]]
  /\ done = {}

Remembered ==
  /\ pastData' = [a \in Oracles |-> [d \in Domains |-> pastData[a][d] \cup {data'[a][d]}]]
  /\ pastOverheads' = [o \in Origins |-> [d \in Domains |->
                        pastOverheads[o][d] \cup {overhead'[o][d]}]]

Owners == Remembered /\ done' = done

\* A price and a rate within the policy of those that an oracle of the chain
\* has held for the domain, with neither of them zero to measure from.
Allowed(o, d, after) ==
  \E a \in Oracles : Home[a] = o /\ \E base \in pastData[a][d] :
    /\ base["gasPrice"] # 0 /\ WithinMax(base["gasPrice"], after["gasPrice"])
    /\ base["tokenExchangeRate"] # 0
    /\ WithinMax(base["tokenExchangeRate"], after["tokenExchangeRate"])

ToolWrites(a, d) ==
  LET o == Home[a] IN
  /\ \E token \in done' : token \notin done /\ done' = done \cup {token}
  /\ Allowed(o, d, data'[a][d])
  /\ data' = [data EXCEPT ![a][d] = data'[a][d]]
  /\ overhead'[o][d] \in pastOverheads[o][d]
  /\ overhead' = [overhead EXCEPT ![o][d] = overhead'[o][d]]
  /\ Remembered

GuardedNext == Owners \/ \E a \in Oracles, d \in Domains : ToolWrites(a, d)

Spec == GuardedInit /\ [][GuardedNext]_gvars
=============================================================================
