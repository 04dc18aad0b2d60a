----------------------- MODULE EncryptionPluginsProofs -----------------------
(***************************************************************************)
(* Proof that a manager which one thread makes before the others call      *)
(* keeps every plugin that joins, that no promised encryption is left out, *)
(* and that what was encrypted can be read back, for any number of         *)
(* threads, plugins and data ids.  A run of TLC shows that threads that    *)
(* race to make the first manager break the first two.                     *)
(***************************************************************************)
EXTENDS EncryptionPlugins, TLAPS

OneStarter == \A s, t \in Starters : s = t

\* There is one manager at most; before there is, nothing has joined and only
\* the starter is under way, which makes it if nobody has.
OneManager ==
    /\ instance \in {NoManager, 1}
    /\ instance = NoManager =>
          /\ joined = Installed
          /\ \A t \in Threads : pc[t] # "idle" => t \in Starters
          /\ made = 0 \/ \E t \in Threads : pc[t] = "assign"
    /\ \A t \in Threads :
          /\ pc[t] \in {"construct", "assign"} => instance = NoManager
          /\ pc[t] \in {"assign", "join", "find"} => manager[t] = 1
          /\ pc[t] \in {"return", "join", "find"} => instance = 1

\* It holds a plugin for the algorithm of each plugin that joined.
Held ==
    /\ spi \in [Managers -> [Algorithms -> Plugins \cup {NoPlugin}]]
    /\ joined \subseteq Plugins
    /\ \A p \in joined : spi[1][Algorithm[p]] # NoPlugin

\* A thread about to join has a plugin to join; a call under a promise looks up
\* the algorithm it was promised and, once it has looked, found a plugin.
Calling ==
    /\ pc \in [Threads -> PCs]
    /\ DOMAIN call = Threads
    /\ manager \in [Threads -> Managers \cup {NoManager}]
    /\ found \in [Threads -> Plugins \cup {NoPlugin}]
    /\ promised \in [Threads -> BOOLEAN]
    /\ \A t \in Threads :
          /\ call[t].name = "join" => call[t].plugin \in Plugins
          /\ pc[t] = "join" => call[t].name = "join"
          /\ pc[t] = "find" => call[t].name # "join"
          /\ pc[t] = "idle" => ~promised[t]
          /\ promised[t] =>
                \E p \in joined : Algorithm[p] = ParseAlgorithmName(call[t].id)
          /\ promised[t] /\ pc[t] = "act" => found[t] # NoPlugin

IInv == OneManager /\ Held /\ Calling

LEMMA InitIInv == Init => IInv
  <1> SUFFICES ASSUME Init PROVE IInv
    OBVIOUS
  <1> USE PluginsAssumption, ManagersAssumption DEF Init, LoadInitial, Installed
  <1>1. OneManager
    BY DEF OneManager
  <1>2. Held
    <2>1. \A a \in Algorithms : Loaded[a] \in Plugins \cup {NoPlugin}
      OBVIOUS
    <2>2. joined \subseteq Plugins
      BY <2>1
    <2>3. ASSUME NEW p \in joined PROVE spi[1][Algorithm[p]] # NoPlugin
      <3>1. PICK a \in Algorithms : p = Loaded[a] /\ p # NoPlugin
        OBVIOUS
      <3>2. Algorithm[p] = a
        BY <3>1
      <3> QED BY <3>1, <3>2
    <2> QED BY <2>2, <2>3 DEF Held
  <1>3. Calling
    BY DEF Calling, PCs, NoCall, NoItem, NoManager
  <1> QED BY <1>1, <1>2, <1>3 DEF IInv

\* A data id that is promised a plugin names an algorithm.
LEMMA PromisedNeedsService ==
    ASSUME NEW id, Promised(id), joined \subseteq Plugins
    PROVE  /\ NeedsService(id)
           /\ \E p \in joined : Algorithm[p] = ParseAlgorithmName(id)
  <1>1. PICK p \in joined : Algorithm[p] = id[2]
    BY DEF Promised
  <1>2. id[2] # ""
    <2>1. Algorithm[p] \in Algorithms
      BY <1>1 DEF Algorithms
    <2> QED BY <1>1, <2>1, PluginsAssumption
  <1>3. id # <<"cipher", "">>
    <2>1. <<"cipher", "">>[2] = ""
      OBVIOUS
    <2> QED BY <1>2, <2>1
  <1> QED BY <1>1, <1>2, <1>3
          DEF Promised, NeedsService, CheckCipher, ParseAlgorithmName

\* Every step keeps the invariant.
LEMMA NextIInv == OneStarter /\ IInv /\ [Next]_vars => IInv'
  <1> SUFFICES ASSUME OneStarter, IInv, [Next]_vars PROVE IInv'
    OBVIOUS
  <1> USE DEF IInv, Goto, PCs, registry, locals
  <1>1. ASSUME NEW t \in Threads, NEW p \in Plugins, Join(t, p) PROVE IInv'
    <2>1. OneManager' /\ Held'
      BY <1>1 DEF Join, Begin, OneManager, Held, Calling
    <2>2. Calling'
      BY <1>1 DEF Join, Begin, Calling, NoCall
    <2> QED BY <2>1, <2>2
  <1>2. ASSUME NEW t \in Threads, NEW id \in DataIds, Encrypt(t, id)
        PROVE  IInv'
    <2> USE <1>2 DEF Encrypt, Begin
    <2>1. OneManager' /\ Held'
      BY DEF OneManager, Held, Calling
    <2>2. promised'[t] => /\ NeedsService(id)
                          /\ \E p \in joined :
                                Algorithm[p] = ParseAlgorithmName(id)
      BY PromisedNeedsService DEF Calling, Held
    <2>3. promised' \in [Threads -> BOOLEAN]
      BY DEF Calling, Promised
    <2>4. Calling'
      BY <2>2, <2>3 DEF Calling, NoCall
    <2> QED BY <2>1, <2>4
  <1>3. ASSUME NEW t \in Threads, NEW item \in published, Decrypt(t, item)
        PROVE  IInv'
    <2>1. OneManager' /\ Held'
      BY <1>3 DEF Decrypt, Begin, OneManager, Held, Calling
    <2>2. Calling'
      BY <1>3 DEF Decrypt, Begin, Calling, NoCall
    <2> QED BY <2>1, <2>2
  <1>4. ASSUME NEW t \in Threads, TestInstance(t) PROVE IInv'
    <2> USE <1>4 DEF TestInstance
    <2>1. OneManager'
      BY DEF OneManager, Calling, HasInstance, NoManager
    <2>2. Held' /\ Calling'
      BY DEF Held, Calling, OneManager
    <2> QED BY <2>1, <2>2
  <1>5. ASSUME NEW t \in Threads, ReturnInstance(t) PROVE IInv'
    <2> USE <1>5, ManagersAssumption DEF ReturnInstance
    <2>1. OneManager'
      BY DEF OneManager, Calling, NoManager
    <2>2. Held' /\ Calling'
      BY DEF Held, Calling, OneManager
    <2> QED BY <2>1, <2>2
  <1>6. ASSUME NEW t \in Threads, StorePlugin(t) PROVE IInv'
    <2> DEFINE p == call[t].plugin
    <2> USE <1>6, PluginsAssumption DEF StorePlugin, Leave
    <2>1. p \in Plugins /\ manager[t] = 1 /\ Algorithm[p] \in Algorithms
      BY DEF Calling, OneManager, Algorithms
    <2>2. spi' = [spi EXCEPT ![1][Algorithm[p]] = p]
      BY <2>1
    <2>3. OneManager'
      <3>1. instance = 1 /\ instance' = 1
        BY DEF OneManager
      <3>2. \A s \in Threads : s # t => /\ pc'[s] = pc[s]
                                       /\ manager'[s] = manager[s]
        BY DEF Calling
      <3>3. pc'[t] = "idle"
        BY DEF Calling
      <3> QED BY ONLY <3>1, <3>2, <3>3, IInv DEF IInv, OneManager, NoManager
    <2>4. Held'
      <3>1. spi' \in [Managers -> [Algorithms -> Plugins \cup {NoPlugin}]]
        <4>1. [spi[1] EXCEPT ![Algorithm[p]] = p]
                 \in [Algorithms -> Plugins \cup {NoPlugin}]
          BY <2>1, ManagersAssumption DEF Held
        <4> QED BY <2>1, <2>2, <4>1, ManagersAssumption DEF Held
      <3>2. joined' \subseteq Plugins
        BY <2>1 DEF Held
      <3>3. ASSUME NEW q \in joined' PROVE spi'[1][Algorithm[q]] # NoPlugin
        <4>1. Algorithm[q] \in Algorithms
          BY <3>2, <3>3 DEF Algorithms
        <4>2. spi'[1] = [spi[1] EXCEPT ![Algorithm[p]] = p]
          BY <2>2, ManagersAssumption DEF Held
        <4>3. spi[1] \in [Algorithms -> Plugins \cup {NoPlugin}]
          BY ManagersAssumption DEF Held
        <4>4. CASE Algorithm[q] = Algorithm[p]
          BY <2>1, <4>1, <4>2, <4>3, <4>4
        <4>5. CASE Algorithm[q] # Algorithm[p]
          <5>1. spi'[1][Algorithm[q]] = spi[1][Algorithm[q]]
            <6> DEFINE a == Algorithm[q]
                       b == Algorithm[p]
                       g == spi[1]
            <6>1. a \in Algorithms /\ a # b /\ spi'[1] = [g EXCEPT ![b] = p]
                  /\ g \in [Algorithms -> Plugins \cup {NoPlugin}]
              BY <4>1, <4>2, <4>3, <4>5
            <6> HIDE DEF a, b, g
            <6>2. spi'[1][a] = g[a]
              BY ONLY <6>1
            <6> QED BY <6>2 DEF a, g
          <5>2. q \in joined
            BY <3>3, <4>5
          <5> QED BY <5>1, <5>2 DEF Held
        <4> QED BY <4>4, <4>5
      <3> QED BY <3>1, <3>2, <3>3 DEF Held
    <2>5. Calling'
      BY DEF Calling, NoCall, NoManager
    <2> QED BY <2>3, <2>4, <2>5
  <1>7. ASSUME NEW t \in Threads, Find(t) PROVE IInv'
    <2> USE <1>7 DEF Find
    <2>1. OneManager' /\ Held'
      BY DEF OneManager, Held, Calling
    <2>2. promised[t] => Service(1, ParseAlgorithmName(call[t].id)) # NoPlugin
      <3> SUFFICES ASSUME promised[t]
                   PROVE  Service(1, ParseAlgorithmName(call[t].id)) # NoPlugin
        OBVIOUS
      <3>1. PICK p \in joined : Algorithm[p] = ParseAlgorithmName(call[t].id)
        BY DEF Calling
      <3>2. Algorithm[p] \in Algorithms /\ spi[1][Algorithm[p]] # NoPlugin
        BY DEF Held, Algorithms
      <3> QED BY <3>1, <3>2 DEF Service
    <2>3. Service(manager[t], ParseAlgorithmName(call[t].id))
             \in Plugins \cup {NoPlugin}
      BY ManagersAssumption DEF Held, Service, OneManager
    <2>4. Calling'
      BY <2>2, <2>3 DEF Calling, OneManager
    <2> QED BY <2>1, <2>4
  <1>8. ASSUME NEW t \in Threads, pc[t] = "act", Leave(t),
               UNCHANGED <<registry, joined>>
        PROVE  IInv'
    <2> USE <1>8 DEF Leave
    <2>1. OneManager' /\ Held'
      BY DEF OneManager, Held, Calling, NoManager
    <2>2. Calling'
      BY DEF Calling, NoCall, NoManager
    <2> QED BY <2>1, <2>2
  <1>9. ASSUME NEW t \in Threads, Construct(t) PROVE IInv'
    <2> USE <1>9 DEF Construct
    <2>1. made = 0
      BY DEF OneManager, OneStarter
    <2>2. OneManager'
      BY <2>1 DEF OneManager, Calling, NoManager
    <2>3. Held' /\ Calling'
      BY <2>1, ManagersAssumption DEF Held, Calling
    <2> QED BY <2>2, <2>3
  <1>10. ASSUME NEW t \in Threads, Assign(t) PROVE IInv'
    <2> USE <1>10 DEF Assign
    <2>1. \A s \in Threads \ {t} : pc[s] = "idle"
      BY DEF OneManager, OneStarter
    <2>2. OneManager'
      BY <2>1 DEF OneManager, Calling, NoManager
    <2>3. Held' /\ Calling'
      BY DEF Held, Calling
    <2> QED BY <2>2, <2>3
  <1>11. CASE UNCHANGED vars
    BY <1>11 DEF vars, OneManager, Held, Calling
  <1> QED BY <1>1, <1>2, <1>3, <1>4, <1>5, <1>6, <1>7, <1>8, <1>9, <1>10, <1>11
          DEF Next, Step, EncryptContent, DecryptContent

LEMMA IInvHolds == OneStarter /\ Spec => []IInv
  <1> SUFFICES ASSUME OneStarter PROVE Spec => []IInv
    OBVIOUS
  <1>1. IInv /\ [Next]_vars => IInv'
    BY NextIInv
  <1> QED BY <1>1, InitIInv, PTL DEF Spec

\* When one thread makes the first call, every plugin that joins stays known to
\* the manager everyone gets.
THEOREM OneStarterSticks == OneStarter /\ Spec => []JoinSticks
  <1> SUFFICES ASSUME OneStarter PROVE Spec => []JoinSticks
    OBVIOUS
  <1>1. IInv => JoinSticks
    BY DEF IInv, OneManager, Held, JoinSticks, NoManager
  <1> QED BY <1>1, IInvHolds, PTL

\* And no data id whose plugin had joined is published in the clear.
THEOREM OneStarterNeverPlain == OneStarter /\ Spec => []NeverPlain
  <1> SUFFICES ASSUME OneStarter PROVE Spec => []NeverPlain
    OBVIOUS
  <1>1. IInv => NeverPlain
    BY DEF IInv, Calling, NeverPlain
  <1> QED BY <1>1, IInvHolds, PTL

-----------------------------------------------------------------------------
(* Reading back what was published.                                        *)

\* A plugin that has joined, for the algorithm that a data id names.
Fits(p, id) ==
    p \in joined /\ NeedsService(id) /\ Algorithm[p] = ParseAlgorithmName(id)

\* A manager holds plugins that have joined, each under its algorithm; what was
\* encrypted, or is about to be, was so by a plugin that fits its data id; and
\* decrypt_handler of an encrypted item finds some plugin.
Keyed ==
    /\ \A m \in Managers, a \in Algorithms :
          spi[m][a] # NoPlugin => spi[m][a] \in joined /\ Algorithm[spi[m][a]] = a
    /\ \A item \in published : item.key # NoPlugin => Fits(item.key, item.id)
    /\ \A t \in Threads :
          /\ found[t] # NoPlugin => pc[t] = "act" /\ Fits(found[t], call[t].id)
          /\ pc[t] \notin {"idle", "act"} /\ call[t].name # "join" =>
                NeedsService(call[t].id)
          /\ call[t].name = "decrypt" =>
                /\ call[t].item \in published /\ call[t].id = call[t].item.id
                /\ pc[t] = "act" /\ call[t].item.key # NoPlugin => found[t] # NoPlugin

LEMMA InitKeyed == Init => Keyed
  <1> SUFFICES ASSUME Init PROVE Keyed
    OBVIOUS
  <1>1. ASSUME NEW m \in Managers, NEW a \in Algorithms, spi[m][a] # NoPlugin
        PROVE  spi[m][a] \in joined /\ Algorithm[spi[m][a]] = a
    BY <1>1, PluginsAssumption DEF Init, LoadInitial, Installed
  <1> QED BY <1>1 DEF Init, Keyed, NoCall

\* What a call that starts has on its item.
LEMMA BeginKeyed ==
    ASSUME IInv, Keyed, NEW t \in Threads, NEW c, NEW label \in {"test", "act"},
           Begin(t, c, label),
           c.name # "join" /\ label = "test" => NeedsService(c.id),
           c.name = "decrypt" => /\ c.item \in published /\ c.id = c.item.id
                                 /\ label = "act" => c.item.key = NoPlugin
    PROVE  Keyed'
  <1>1. /\ call'[t] = c /\ pc'[t] = label /\ found[t] = NoPlugin
        /\ UNCHANGED <<registry, found, published, joined>>
        /\ \A u \in Threads : u # t => call'[u] = call[u] /\ pc'[u] = pc[u]
    BY DEF Begin, Goto, IInv, Calling, Keyed
  <1>2. \A p, id : Fits(p, id)' <=> Fits(p, id)
    BY <1>1 DEF Fits
  <1> QED BY <1>1, <1>2 DEF Keyed, registry

LEMMA NextKeyed == IInv /\ Keyed /\ [Next]_vars => Keyed'
  <1> SUFFICES ASSUME IInv, Keyed, [Next]_vars PROVE Keyed'
    OBVIOUS
  <1>1. ASSUME NEW t \in Threads, NEW p \in Plugins, Join(t, p) PROVE Keyed'
    <2> DEFINE c == [NoCall EXCEPT !.name = "join", !.plugin = p]
    <2>1. c.name = "join" /\ Begin(t, c, "test")
      BY <1>1 DEF Join, NoCall
    <2> HIDE DEF c
    <2> QED BY <2>1, BeginKeyed
  <1>2. ASSUME NEW t \in Threads, NEW id \in DataIds, Encrypt(t, id) PROVE Keyed'
    <2> DEFINE c == [NoCall EXCEPT !.name = "encrypt", !.id = id]
    <2>1. c.name = "encrypt" /\ c.id = id
      BY DEF NoCall
    <2>2. Begin(t, c, IF NeedsService(id) THEN "test" ELSE "act")
      BY <1>2 DEF Encrypt
    <2> HIDE DEF c
    <2> QED BY <2>1, <2>2, BeginKeyed
  <1>3. ASSUME NEW t \in Threads, NEW item \in published, Decrypt(t, item) PROVE Keyed'
    <2> DEFINE c == [NoCall EXCEPT !.name = "decrypt", !.id = item.id, !.item = item]
    <2>1. c.name = "decrypt" /\ c.id = item.id /\ c.item = item
      BY DEF NoCall
    <2>2. Begin(t, c, IF NeedsService(item.id) THEN "test" ELSE "act")
      BY <1>3 DEF Decrypt
    <2>3. ~NeedsService(item.id) => item.key = NoPlugin
      BY DEF Keyed, Fits
    <2> HIDE DEF c
    <2> QED BY <2>1, <2>2, <2>3, BeginKeyed
  <1>4. ASSUME NEW t \in Threads,
               TestInstance(t) \/ Construct(t) \/ Assign(t) \/ ReturnInstance(t)
        PROVE  Keyed'
    <2>1. /\ UNCHANGED <<spi, call, found, published, joined>>
          /\ pc[t] \notin {"idle", "act"} /\ pc'[t] # "act"
          /\ \A u \in Threads : u # t => pc'[u] = pc[u]
      BY <1>4 DEF TestInstance, Construct, Assign, ReturnInstance, Goto, registry, locals,
                  IInv, Calling
    <2>2. \A p, id : Fits(p, id)' <=> Fits(p, id)
      BY <2>1 DEF Fits
    <2> QED BY <2>1, <2>2 DEF Keyed
  <1>5. ASSUME NEW t \in Threads, StorePlugin(t) PROVE Keyed'
    <2> DEFINE p == call[t].plugin
    <2> USE PluginsAssumption
    <2>1. /\ manager[t] = 1 /\ p \in Plugins /\ Algorithm[p] \in Algorithms
          /\ spi \in [Managers -> [Algorithms -> Plugins \cup {NoPlugin}]]
      BY <1>5 DEF StorePlugin, IInv, OneManager, Calling, Held, Algorithms
    <2>2. /\ spi' = [spi EXCEPT ![1][Algorithm[p]] = p] /\ joined' = joined \cup {p}
          /\ published' = published
      BY <1>5, <2>1 DEF StorePlugin
    <2>3. /\ call'[t] = NoCall /\ pc'[t] = "idle" /\ found'[t] = NoPlugin
          /\ \A u \in Threads : u # t => /\ call'[u] = call[u] /\ pc'[u] = pc[u]
                                         /\ found'[u] = found[u]
      BY <1>5 DEF StorePlugin, Leave, Goto, IInv, Calling
    <2>4. ASSUME NEW m \in Managers, NEW a \in Algorithms, spi'[m][a] # NoPlugin
          PROVE  spi'[m][a] \in joined' /\ Algorithm[spi'[m][a]] = a
      <3>1. CASE m = 1 /\ a = Algorithm[p]
        BY <2>1, <2>2, <3>1
      <3>2. CASE ~(m = 1 /\ a = Algorithm[p])
        <4>1. m # 1 => spi'[m] = spi[m]
          BY <2>1, <2>2
        <4>2. m = 1 => spi'[m] = [spi[m] EXCEPT ![Algorithm[p]] = p]
          BY <2>1, <2>2
        <4>3. spi'[m][a] = spi[m][a]
          <5>1. spi[m] \in [Algorithms -> Plugins \cup {NoPlugin}]
            BY <2>1
          <5> QED BY <3>2, <4>1, <4>2, <5>1
        <4>4. spi[m][a] # NoPlugin
          BY <2>4, <4>3
        <4>5. spi[m][a] \in joined /\ Algorithm[spi[m][a]] = a
          BY <4>4 DEF Keyed
        <4>6. joined \subseteq joined'
          BY <2>2
        <4> QED BY ONLY <4>3, <4>5, <4>6
      <3> QED BY <3>1, <3>2
    <2>5. joined \subseteq joined'
      BY <2>2
    <2>6. NoCall.name = "none"
      BY DEF NoCall
    <2> HIDE DEF p
    <2>7. \A item \in published : item.key # NoPlugin => Fits(item.key, item.id)'
      BY <2>5 DEF Keyed, Fits
    <2>8. ASSUME NEW u \in Threads
          PROVE  /\ found'[u] # NoPlugin => pc'[u] = "act" /\ Fits(found[u], call[u].id)'
                 /\ pc'[u] \notin {"idle", "act"} /\ call'[u].name # "join" =>
                       NeedsService(call'[u].id)
                 /\ call'[u].name = "decrypt" =>
                       /\ call'[u].item \in published' /\ call'[u].id = call'[u].item.id
                       /\ pc'[u] = "act" /\ call'[u].item.key # NoPlugin =>
                             found'[u] # NoPlugin
      <3>1. CASE u = t
        BY <2>3, <2>6, <3>1
      <3>2. CASE u # t
        <4>1. Fits(found[u], call[u].id) => Fits(found[u], call[u].id)'
          BY <2>3, <2>5, <3>2 DEF Fits
        <4>2. /\ found[u] # NoPlugin => pc[u] = "act" /\ Fits(found[u], call[u].id)
              /\ pc[u] \notin {"idle", "act"} /\ call[u].name # "join" =>
                    NeedsService(call[u].id)
              /\ call[u].name = "decrypt" =>
                    /\ call[u].item \in published /\ call[u].id = call[u].item.id
                    /\ pc[u] = "act" /\ call[u].item.key # NoPlugin =>
                          found[u] # NoPlugin
          BY DEF Keyed
        <4> QED BY <2>2, <2>3, <3>2, <4>1, <4>2
      <3> QED BY <3>1, <3>2
    <2> QED BY <2>2, <2>4, <2>7, <2>8 DEF Keyed
  <1>6. ASSUME NEW t \in Threads, Find(t) PROVE Keyed'
    <2> DEFINE name == ParseAlgorithmName(call[t].id)
               q == Service(manager[t], name)
    <2>1. /\ manager[t] = 1 /\ 1 \in Managers /\ NeedsService(call[t].id)
          /\ call[t].name # "join"
      BY <1>6, ManagersAssumption DEF Find, IInv, OneManager, Keyed, Calling
    <2>2. /\ UNCHANGED <<spi, call, published, joined>>
          /\ pc'[t] = "act" /\ found'[t] = q
          /\ \A u \in Threads : u # t => pc'[u] = pc[u] /\ found'[u] = found[u]
      BY <1>6 DEF Find, Goto, registry, IInv, Calling
    <2>3. \A p, id : Fits(p, id)' <=> Fits(p, id)
      BY <2>2 DEF Fits
    <2>4. q # NoPlugin => Fits(q, call[t].id)
      BY <2>1 DEF Service, Fits, Keyed
    <2>5. ASSUME call[t].name = "decrypt", call[t].item.key # NoPlugin
          PROVE  q # NoPlugin
      <3>1. PICK p \in joined : Algorithm[p] = name
        BY <2>5 DEF Keyed, Fits
      <3>2. Algorithm[p] \in Algorithms /\ spi[1][Algorithm[p]] # NoPlugin
        BY DEF IInv, Held, Algorithms
      <3> QED BY <2>1, <3>1, <3>2 DEF Service
    <2> HIDE DEF q
    <2> QED BY <2>2, <2>3, <2>4, <2>5 DEF Keyed
  <1>7. ASSUME NEW t \in Threads, EncryptContent(t) \/ DecryptContent(t) PROVE Keyed'
    <2> DEFINE sent == [id |-> call[t].id, key |-> found[t]]
    <2>1. /\ UNCHANGED <<spi, joined>> /\ published \subseteq published'
          /\ published' \subseteq published \cup {sent}
          /\ call'[t] = NoCall /\ pc'[t] = "idle" /\ found'[t] = NoPlugin
          /\ \A u \in Threads : u # t => /\ call'[u] = call[u] /\ pc'[u] = pc[u]
                                         /\ found'[u] = found[u]
      BY <1>7 DEF EncryptContent, DecryptContent, Leave, Goto, registry, IInv, Calling
    <2>2. \A p, id : Fits(p, id)' <=> Fits(p, id)
      BY <2>1 DEF Fits
    <2>3. sent.key # NoPlugin => Fits(sent.key, sent.id)
      BY DEF Keyed
    <2>4. NoCall.name = "none"
      BY DEF NoCall
    <2> HIDE DEF sent
    <2> QED BY <2>1, <2>2, <2>3, <2>4 DEF Keyed
  <1>8. CASE UNCHANGED vars
    <2>1. \A p, id : Fits(p, id)' <=> Fits(p, id)
      BY <1>8 DEF Fits, vars
    <2> QED BY <1>8, <2>1 DEF Keyed, vars, registry, locals
  <1> QED BY <1>1, <1>2, <1>3, <1>4, <1>5, <1>6, <1>7, <1>8 DEF Next, Step

\* When one thread makes the first call, decrypt_handler decrypts what was
\* encrypted with the plugin that did so, unless another of its algorithm joined.
THEOREM OneStarterReadable == OneStarter /\ Spec => []Readable
  <1> SUFFICES ASSUME OneStarter PROVE Spec => []Readable
    OBVIOUS
  <1>1. Keyed => Readable
    BY DEF Keyed, Fits, Readable
  <1> QED BY <1>1, InitKeyed, NextKeyed, IInvHolds, PTL DEF Spec
=============================================================================
