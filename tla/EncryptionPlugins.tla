-------------------------- MODULE EncryptionPlugins --------------------------
(***************************************************************************)
(* config/encryption: the EncryptionPluginManager singleton, the plugins   *)
(* that applications join to it, and the EncryptionHandler that picks one  *)
(* by the algorithm named in a data id and encrypts or decrypts with it.   *)
(* get_instance takes no lock; its test, its assignment and its final read *)
(* of the class attribute are steps of their own.                          *)
(*                                                                         *)
(* A data id is the sequence of its parts between dashes.  Every plugin    *)
(* object draws two keys of its own when it is made and encrypts a text    *)
(* under the one, that key under the other: only the same plugin object    *)
(* can decrypt what a plugin encrypted, so that it stands for its keys.    *)
(* Mut... operators, here and in the other modules, are likely mistakes in *)
(* the operator after them; no specification uses them.                    *)
(***************************************************************************)
EXTENDS Integers, Sequences

CONSTANTS
    Threads,
    Plugins, NoPlugin,  \* plugin objects; None, and the empty data key
    Algorithm,          \* plugin -> algorithm_name()
    Loaded,             \* algorithm -> the last plugin of it, or NoPlugin, among
                        \* those that NacosServiceLoader.load finds, external
    DataIds,            \* data ids that are published
    Managers,           \* manager objects that may be made: 1 .. a bound
    Starters            \* threads that may call before there is a manager: one
                        \* when the application makes a first call on its own

NoManager == 0
Algorithms == {Algorithm[p] : p \in Plugins}

ASSUME PluginsAssumption ==
    /\ NoPlugin \notin Plugins
    /\ Algorithm \in [Plugins -> STRING]
    /\ "" \notin Algorithms
    /\ Loaded \in [Algorithms -> Plugins \cup {NoPlugin}]
    /\ \A a \in Algorithms : Loaded[a] # NoPlugin => Algorithm[Loaded[a]] = a
ASSUME ManagersAssumption == 1 \in Managers /\ Managers \subseteq Nat \ {0}
ASSUME StartersAssumption == Starters \subseteq Threads

VARIABLES
    instance,   \* EncryptionPluginManager._instance
    spi,        \* ENCRYPTION_SPI_MAP of each manager
    made,       \* number of managers made
    pc,
    call,       \* each thread's call: [name, plugin, id, item]
    manager,    \* the manager its get_instance made or returned
    found,      \* the service its look-up found
    published,  \* what encrypt_handler returned: [id, key], the key being the
                \* plugin whose keys were used, NoPlugin for the clear text
    joined,     \* history: plugins joined or loaded
    promised    \* history: a plugin for its data id had joined when it called

registry == <<instance, spi, made>>
locals == <<call, manager, found>>
vars == <<registry, pc, locals, published, joined, promised>>

Items == [id : DataIds, key : Plugins \cup {NoPlugin}]
NoItem == [id |-> <<>>, key |-> NoPlugin]
NoCall == [name |-> "none", plugin |-> NoPlugin, id |-> <<>>, item |-> NoItem]

\* load_initial: each new manager holds the loaded plugins.
LoadInitial == [m \in Managers |-> Loaded]
Installed == {Loaded[a] : a \in Algorithms} \ {NoPlugin}

Init ==
    /\ instance = NoManager
    /\ spi = LoadInitial
    /\ made = 0
    /\ pc = [t \in Threads |-> "idle"]
    /\ call = [t \in Threads |-> NoCall]
    /\ manager = [t \in Threads |-> NoManager]
    /\ found = [t \in Threads |-> NoPlugin]
    /\ published = {}
    /\ joined = Installed
    /\ promised = [t \in Threads |-> FALSE]

Goto(t, label) == pc' = [pc EXCEPT ![t] = label]

-----------------------------------------------------------------------------
(* The handler's tests on a data id.                                       *)

CheckCipher(id) == id[1] = "cipher" /\ Len(id) > 1 /\ id # <<"cipher", "">>
ParseAlgorithmName(id) == id[2]

MutNeedsService(id) == CheckCipher(id) /\ Len(id) > 2
NeedsService(id) == CheckCipher(id) /\ ParseAlgorithmName(id) # ""

Begin(t, c, label) ==
    /\ pc[t] = "idle"
    /\ instance = NoManager => t \in Starters
    /\ call' = [call EXCEPT ![t] = c]
    /\ Goto(t, label)
    /\ UNCHANGED <<registry, manager, found, published, joined>>

Join(t, p) ==
    /\ Begin(t, [NoCall EXCEPT !.name = "join", !.plugin = p], "test")
    /\ UNCHANGED promised

\* Whoever reads the manager now finds a plugin for this data id.
Promised(id) ==
    Len(id) > 1 /\ id[1] = "cipher" /\ \E p \in joined : Algorithm[p] = id[2]

\* A data id without an algorithm is left as it is, as one without a service.
Encrypt(t, id) ==
    /\ Begin(t, [NoCall EXCEPT !.name = "encrypt", !.id = id],
             IF NeedsService(id) THEN "test" ELSE "act")
    /\ promised' = [promised EXCEPT ![t] = Promised(id)]

Decrypt(t, item) ==
    /\ Begin(t, [NoCall EXCEPT !.name = "decrypt", !.id = item.id, !.item = item],
             IF NeedsService(item.id) THEN "test" ELSE "act")
    /\ UNCHANGED promised

-----------------------------------------------------------------------------
(* get_instance.                                                           *)

MutHasInstance == FALSE
HasInstance == instance # NoManager

TestInstance(t) ==
    /\ pc[t] = "test"
    /\ Goto(t, IF HasInstance THEN "return" ELSE "construct")
    /\ UNCHANGED <<registry, locals, published, joined, promised>>

\* The new object, filled by load_initial, is nobody else's yet.
Construct(t) ==
    /\ pc[t] = "construct"
    /\ made + 1 \in Managers
    /\ made' = made + 1
    /\ manager' = [manager EXCEPT ![t] = made + 1]
    /\ Goto(t, "assign")
    /\ UNCHANGED <<instance, spi, call, found, published, joined, promised>>

Assign(t) ==
    /\ pc[t] = "assign"
    /\ instance' = manager[t]
    /\ Goto(t, "return")
    /\ UNCHANGED <<spi, made, locals, published, joined, promised>>

ReturnInstance(t) ==
    /\ pc[t] = "return"
    /\ manager' = [manager EXCEPT ![t] = instance]
    /\ Goto(t, IF call[t].name = "join" THEN "join" ELSE "find")
    /\ UNCHANGED <<registry, call, found, published, joined, promised>>

-----------------------------------------------------------------------------
(* What the three calls do with the manager.                               *)

Leave(t) ==
    /\ Goto(t, "idle")
    /\ call' = [call EXCEPT ![t] = NoCall]
    /\ manager' = [manager EXCEPT ![t] = NoManager]
    /\ found' = [found EXCEPT ![t] = NoPlugin]
    /\ promised' = [promised EXCEPT ![t] = FALSE]

\* The manager's lock is held around this one assignment.
StorePlugin(t) ==
    LET p == call[t].plugin IN
    /\ pc[t] = "join"
    /\ spi' = [spi EXCEPT ![manager[t]][Algorithm[p]] = p]
    /\ joined' = joined \cup {p}
    /\ Leave(t)
    /\ UNCHANGED <<instance, made, published>>

\* find_encryption_service takes no lock.
Service(m, name) == IF name \in Algorithms THEN spi[m][name] ELSE NoPlugin

Find(t) ==
    /\ pc[t] = "find"
    /\ found' = [found EXCEPT
          ![t] = Service(manager[t], ParseAlgorithmName(call[t].id))]
    /\ Goto(t, "act")
    /\ UNCHANGED <<registry, call, manager, published, joined, promised>>

\* With a service the encrypted text and data key, without one the content as
\* it is and no data key.
EncryptContent(t) ==
    /\ pc[t] = "act"
    /\ call[t].name = "encrypt"
    /\ published' = published \cup
          {[id |-> call[t].id, key |-> found[t]]}
    /\ Leave(t)
    /\ UNCHANGED <<registry, joined>>

DecryptContent(t) ==
    /\ pc[t] = "act"
    /\ call[t].name = "decrypt"
    /\ Leave(t)
    /\ UNCHANGED <<registry, published, joined>>

-----------------------------------------------------------------------------
Step(t) ==
    \/ TestInstance(t)
    \/ Construct(t)
    \/ Assign(t)
    \/ ReturnInstance(t)
    \/ StorePlugin(t)
    \/ Find(t)
    \/ EncryptContent(t)
    \/ DecryptContent(t)

Next ==
    \E t \in Threads :
        \/ Step(t)
        \/ \E p \in Plugins : Join(t, p)
        \/ \E id \in DataIds : Encrypt(t, id)
        \/ \E item \in published : Decrypt(t, item)

Spec == Init /\ [][Next]_vars

-----------------------------------------------------------------------------
PCs == {"idle", "test", "construct", "assign", "return", "join", "find", "act"}

\* The type invariant; whoever acts on a manager has one.
TypeOK ==
    /\ instance \in Managers \cup {NoManager}
    /\ spi \in [Managers -> [Algorithms -> Plugins \cup {NoPlugin}]]
    /\ made \in Managers \cup {NoManager}
    /\ pc \in [Threads -> PCs]
    /\ \A t \in Threads : pc[t] \in {"join", "find"} => manager[t] \in Managers
    /\ found \in [Threads -> Plugins \cup {NoPlugin}]
    /\ published \subseteq Items
    /\ joined \subseteq Plugins

\* Once the manager has told a caller that its plugin joined successfully, the
\* manager that everyone gets has a plugin for that algorithm.
JoinSticks ==
    \A p \in joined \ Installed :
        instance # NoManager /\ spi[instance][Algorithm[p]] # NoPlugin

\* A cipher data id whose plugin had joined when encrypt_handler was called is
\* never handed back, and so published, in the clear.
NeverPlain ==
    \A t \in Threads :
        pc[t] = "act" /\ call[t].name = "encrypt" /\ promised[t]
            => found[t] # NoPlugin

\* decrypt_handler uses the plugin that encrypted the item, the only one whose
\* keys fit, unless another one of that algorithm joined or was loaded.
Readable ==
    \A t \in Threads :
        LET p == call[t].item.key IN
        pc[t] = "act" /\ call[t].name = "decrypt" /\ p # NoPlugin =>
            \/ found[t] = p
            \/ \E q \in joined \ {p} : Algorithm[q] = Algorithm[p]
=============================================================================
