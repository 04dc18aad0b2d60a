-------------------------- MODULE ConfigFilterChain --------------------------
(***************************************************************************)
(* class ConfigFilterChain of config/model/config_filter.py: the list of   *)
(* filters that get_config and publish_config run over a configuration.    *)
(* add_filter keeps it sorted by get_order() and free of two filters of    *)
(* one name.  Nothing locks the list: every call walks it with a live      *)
(* iterator, which is an index, while others may insert into it.           *)
(***************************************************************************)
EXTENDS Integers, Sequences, SequencesExt

CONSTANTS
    Threads,
    Adders,         \* the threads that call add_filter
    Filters,        \* filter objects, external
    NoFilter,       \* no such object, and the name of none
    Name, Order,    \* filter -> get_filter_name(), get_order()
    MaxFilters      \* bound on the length of the list

ASSUME FiltersAssumption ==
    /\ Order \in [Filters -> Int]
    /\ DOMAIN Name = Filters
    /\ NoFilter \notin Filters
ASSUME BoundAssumption == Adders \subseteq Threads /\ MaxFilters \in Nat

VARIABLES
    chain,      \* self.config_filters
    pc,
    conf,       \* the filter being added
    wanted,     \* the name given to do_filter_by_name
    index,      \* where the iterator of each thread's loop stands, from 1
    ran,        \* the filters this call of do_filters has run, in order
    present     \* history: the filters in the list when the call began

locals == <<conf, wanted, index, ran, present>>
vars == <<chain, pc, locals>>

Init ==
    /\ chain = <<>>
    /\ pc = [t \in Threads |-> "idle"]
    /\ conf = [t \in Threads |-> NoFilter]
    /\ wanted = [t \in Threads |-> NoFilter]
    /\ index = [t \in Threads |-> 1]
    /\ ran = [t \in Threads |-> <<>>]
    /\ present = [t \in Threads |-> {}]

Goto(t, label) == pc' = [pc EXCEPT ![t] = label]

\* A call starts its first loop.
Begin(t, label) ==
    /\ pc[t] = "idle"
    /\ Goto(t, label)
    /\ present' = [present EXCEPT ![t] = ToSet(chain)]
    /\ UNCHANGED <<chain, index, ran>>

Leave(t) ==
    /\ Goto(t, "idle")
    /\ conf' = [conf EXCEPT ![t] = NoFilter]
    /\ wanted' = [wanted EXCEPT ![t] = NoFilter]
    /\ index' = [index EXCEPT ![t] = 1]
    /\ ran' = [ran EXCEPT ![t] = <<>>]
    /\ present' = [present EXCEPT ![t] = {}]

\* The live iterator: it has a next element, or has come to the end.
MutAtEnd(t) == index[t] >= Len(chain)
AtEnd(t) == index[t] > Len(chain)
Element(t) == chain[index[t]]
MutNextElement(t) == index' = [index EXCEPT ![t] = @ + 2]
NextElement(t) == index' = [index EXCEPT ![t] = @ + 1]

-----------------------------------------------------------------------------
(* add_filter.                                                             *)

Adding == {t \in Threads : pc[t] \in {"names", "orders", "insert", "append"}}
Room == Len(chain) + Cardinality(Adding) < MaxFilters

AddFilter(t, f) ==
    /\ t \in Adders /\ Room
    /\ Begin(t, "names")
    /\ conf' = [conf EXCEPT ![t] = f]
    /\ UNCHANGED wanted

\* A filter of that name is there already.
MutNameTaken(t) == conf[t] = Element(t)
NameTaken(t) == Name[conf[t]] = Name[Element(t)]

ReturnTaken(t) ==
    /\ pc[t] = "names" /\ ~AtEnd(t)
    /\ NameTaken(t)
    /\ Leave(t)
    /\ UNCHANGED chain

NextName(t) ==
    /\ pc[t] = "names" /\ ~AtEnd(t)
    /\ ~NameTaken(t)
    /\ NextElement(t)
    /\ UNCHANGED <<chain, pc, conf, wanted, ran, present>>

EndNames(t) ==
    /\ pc[t] = "names" /\ AtEnd(t)
    /\ index' = [index EXCEPT ![t] = 1]
    /\ Goto(t, "orders")
    /\ UNCHANGED <<chain, conf, wanted, ran, present>>

MutGoesBefore(t) == Order[conf[t]] > Order[Element(t)]
GoesBefore(t) == Order[conf[t]] < Order[Element(t)]

CompareOrder(t) ==
    /\ pc[t] = "orders" /\ ~AtEnd(t)
    /\ \/ GoesBefore(t) /\ Goto(t, "insert") /\ UNCHANGED index
       \/ ~GoesBefore(t) /\ NextElement(t) /\ UNCHANGED pc
    /\ UNCHANGED <<chain, conf, wanted, ran, present>>

EndOrders(t) ==
    /\ pc[t] = "orders" /\ AtEnd(t)
    /\ Goto(t, "append")
    /\ UNCHANGED <<chain, locals>>

Insert(t) ==
    /\ pc[t] = "insert"
    /\ chain' = InsertAt(chain, index[t], conf[t])
    /\ Leave(t)

Add(t) ==
    /\ pc[t] = "append"
    /\ chain' = Append(chain, conf[t])
    /\ Leave(t)

-----------------------------------------------------------------------------
(* do_filters and do_filter_by_name.                                       *)

DoFilters(t) == Begin(t, "run") /\ UNCHANGED <<conf, wanted>>

RunFilter(t) ==
    /\ pc[t] = "run" /\ ~AtEnd(t)
    /\ ran' = [ran EXCEPT ![t] = Append(@, Element(t))]
    /\ NextElement(t)
    /\ UNCHANGED <<chain, pc, conf, wanted, present>>

\* A filter that raises ends the call; those behind it do not run.
RunRaises(t) ==
    /\ pc[t] = "run" /\ ~AtEnd(t)
    /\ Leave(t)
    /\ UNCHANGED chain

EndRun(t) ==
    /\ pc[t] = "run" /\ AtEnd(t)
    /\ Leave(t)
    /\ UNCHANGED chain

DoFilterByName(t, name) ==
    /\ Begin(t, "find")
    /\ wanted' = [wanted EXCEPT ![t] = name]
    /\ UNCHANGED conf

PassName(t) ==
    /\ pc[t] = "find" /\ ~AtEnd(t)
    /\ Name[Element(t)] # wanted[t]
    /\ NextElement(t)
    /\ UNCHANGED <<chain, pc, conf, wanted, ran, present>>

\* The filter runs and the call returns, or raises what the filter raises.
RunNamed(t) ==
    /\ pc[t] = "find" /\ ~AtEnd(t)
    /\ Name[Element(t)] = wanted[t]
    /\ Leave(t)
    /\ UNCHANGED chain

\* "Cannot find the filter with name"
RaiseNotFound(t) ==
    /\ pc[t] = "find" /\ AtEnd(t)
    /\ Leave(t)
    /\ UNCHANGED chain

-----------------------------------------------------------------------------
Step(t) ==
    \/ ReturnTaken(t) \/ NextName(t) \/ EndNames(t)
    \/ CompareOrder(t) \/ EndOrders(t) \/ Insert(t) \/ Add(t)
    \/ RunFilter(t) \/ RunRaises(t) \/ EndRun(t)
    \/ PassName(t) \/ RunNamed(t) \/ RaiseNotFound(t)

Next ==
    \E t \in Threads :
        \/ Step(t)
        \/ \E f \in Filters : AddFilter(t, f)
        \/ DoFilters(t)
        \/ \E f \in Filters : DoFilterByName(t, Name[f])

Spec == Init /\ [][Next]_vars

-----------------------------------------------------------------------------
PCs == {"idle", "names", "orders", "insert", "append", "run", "find"}

\* The type invariant; an iterator stands at most one behind the end.
TypeOK ==
    /\ chain \in Seq(Filters)
    /\ pc \in [Threads -> PCs]
    /\ conf \in [Threads -> Filters \cup {NoFilter}]
    /\ \A t \in Adding : conf[t] \in Filters
    /\ wanted \in [Threads -> {Name[f] : f \in Filters} \cup {NoFilter}]
    /\ index \in [Threads -> Nat \ {0}]
    /\ \A t \in Threads : index[t] <= Len(chain) + 1
    /\ ran \in [Threads -> Seq(Filters)]
    /\ present \in [Threads -> SUBSET Filters]

\* A do_filters that comes to its end has run every filter that was in the list
\* when it began, whatever was inserted meanwhile: an insertion before the
\* iterator makes it repeat a filter, never skip one.
RunsAll ==
    \A t \in Threads : pc[t] = "run" /\ AtEnd(t) => present[t] \subseteq ToSet(ran[t])

\* do_filter_by_name fails only for a name that was not there when it began.
FindsPresent ==
    \A t \in Threads :
        pc[t] = "find" /\ AtEnd(t) => \A f \in present[t] : Name[f] # wanted[t]

InOrder(s) == \A i, j \in DOMAIN s : i <= j => Order[s[i]] <= Order[s[j]]

\* While filters are added by one thread at a time the list is sorted and holds
\* no name twice, at every moment.
ChainSorted ==
    /\ InOrder(chain)
    /\ \A i, j \in DOMAIN chain : Name[chain[i]] = Name[chain[j]] => i = j

\* Then a do_filters runs the filters in order, unless two or more were added
\* while it ran: one insertion repeats a filter, the next can bring in a lower
\* one behind it.
RunsInOrder ==
    \A t \in Threads :
        InOrder(ran[t]) \/ Len(chain) > Cardinality(present[t]) + 1
=============================================================================
