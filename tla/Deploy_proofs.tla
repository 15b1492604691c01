---------------------------- MODULE Deploy_proofs ---------------------------
(***************************************************************************)
(* Proofs about the deployment tools, for any number of runs, of foreign    *)
(* and of failing transactions: the types, and that what the deployments    *)
(* file names is there, is wired to what is there, and uses kept keys.      *)
(***************************************************************************)
EXTENDS Deploy, TLAPS

-----------------------------------------------------------------------------
(* The scripts.  A step of a script is in order when what it uses, or       *)
(* writes the address of, was given before or created by a step before it.  *)

ScriptSteps == [op : {"create", "write"}, name : Kinds \cup Entries]

Created(s) == {kind \in Kinds : \E j \in 1..Len(s) : s[j] = create(kind)}

Before(given, s, k, kind) == kind \in given \/ \E j \in 1..k-1 : s[j] = create(kind)

InOrder(given, s, k) ==
    /\ s[k].op = "create" =>
          /\ s[k].name \in Kinds
          /\ \A u \in Uses(s[k].name) : Before(given, s, k, u)
    /\ s[k].op = "write" =>
          /\ s[k].name \in Entries
          /\ Before(given, s, k, KindOf(s[k].name))

Ordered(given, s) ==
    /\ s \in Seq(ScriptSteps)
    /\ \A k \in 1..Len(s) : InOrder(given, s, k)

(* A part of a script, and a part that may use what the first one creates,  *)
(* are in order one after the other.                                        *)
LEMMA OrderedConcat ==
  ASSUME NEW given, NEW s, NEW t, Ordered(given, s), Ordered(given \cup Created(s), t)
  PROVE  Ordered(given, s \o t)
<1>1. /\ s \o t \in Seq(ScriptSteps)
      /\ Len(s \o t) = Len(s) + Len(t)
      /\ \A k \in 1..Len(s) : (s \o t)[k] = s[k]
      /\ \A k \in 1..Len(t) : (s \o t)[Len(s) + k] = t[k]
      /\ Len(s) \in Nat /\ Len(t) \in Nat
  BY DEF Ordered
<1>2. ASSUME NEW kind, NEW k \in 1..Len(s), Before(given, s, k, kind)
      PROVE  Before(given, s \o t, k, kind)
  BY <1>1, <1>2 DEF Before
<1>3. ASSUME NEW kind, NEW k \in 1..Len(t), Before(given \cup Created(s), t, k, kind)
      PROVE  Before(given, s \o t, Len(s) + k, kind)
  <2>1. CASE kind \in given
    BY <2>1 DEF Before
  <2>2. CASE kind \in Created(s)
    <3>1. PICK j \in 1..Len(s) : s[j] = create(kind)
      BY <2>2 DEF Created
    <3>2. j \in 1..(Len(s) + k) - 1 /\ (s \o t)[j] = create(kind)
      BY <3>1, <1>1
    <3>3. QED
      BY <3>2 DEF Before
  <2>3. CASE \E j \in 1..k-1 : t[j] = create(kind)
    <3>1. PICK j \in 1..k-1 : t[j] = create(kind)
      BY <2>3
    <3>2. Len(s) + j \in 1..(Len(s) + k) - 1 /\ (s \o t)[Len(s) + j] = create(kind)
      BY <3>1, <1>1
    <3>3. QED
      BY <3>2 DEF Before
  <2>4. QED
    BY <1>3, <2>1, <2>2, <2>3 DEF Before
<1>4. ASSUME NEW k \in 1..Len(s)
      PROVE  InOrder(given, s \o t, k)
  <2>1. InOrder(given, s, k) /\ (s \o t)[k] = s[k]
    BY <1>1 DEF Ordered
  <2>2. QED
    BY <2>1, <1>2 DEF InOrder
<1>5. ASSUME NEW k \in 1..Len(t)
      PROVE  InOrder(given, s \o t, Len(s) + k)
  <2>1. InOrder(given \cup Created(s), t, k) /\ (s \o t)[Len(s) + k] = t[k]
    BY <1>1 DEF Ordered
  <2>2. QED
    BY <2>1, <1>3 DEF InOrder
<1>6. ASSUME NEW k \in 1..Len(s \o t)
      PROVE  InOrder(given, s \o t, k)
  <2>1. CASE k <= Len(s)
    BY <2>1, <1>1, <1>4
  <2>2. CASE k > Len(s)
    <3>1. k - Len(s) \in 1..Len(t) /\ Len(s) + (k - Len(s)) = k
      BY <2>2, <1>1
    <3>2. QED
      BY <3>1, <1>5
  <2>3. QED
    BY <1>1, <2>1, <2>2
<1>7. QED
  BY <1>1, <1>6 DEF Ordered

LEMMA CreatedConcat ==
  ASSUME NEW s \in Seq(ScriptSteps), NEW t \in Seq(ScriptSteps)
  PROVE  Created(s \o t) = Created(s) \cup Created(t)
<1>1. /\ Len(s \o t) = Len(s) + Len(t)
      /\ \A k \in 1..Len(s) : (s \o t)[k] = s[k]
      /\ \A k \in 1..Len(t) : (s \o t)[Len(s) + k] = t[k]
      /\ Len(s) \in Nat /\ Len(t) \in Nat
  OBVIOUS
<1>2. ASSUME NEW kind \in Created(s \o t)
      PROVE  kind \in Created(s) \cup Created(t)
  <2>1. PICK j \in 1..Len(s \o t) : (s \o t)[j] = create(kind)
    BY DEF Created
  <2>2. CASE j <= Len(s)
    BY <2>1, <2>2, <1>1, kind \in Kinds DEF Created
  <2>3. CASE j > Len(s)
    <3>1. j - Len(s) \in 1..Len(t) /\ Len(s) + (j - Len(s)) = j
      BY <2>3, <1>1
    <3>2. t[j - Len(s)] = create(kind)
      BY <3>1, <2>1, <1>1
    <3>3. QED
      BY <3>1, <3>2 DEF Created
  <2>4. QED
    BY <2>2, <2>3, <1>1
<1>3. ASSUME NEW kind \in Created(s)
      PROVE  kind \in Created(s \o t)
  BY <1>1 DEF Created
<1>4. ASSUME NEW kind \in Created(t)
      PROVE  kind \in Created(s \o t)
  <2>1. PICK j \in 1..Len(t) : t[j] = create(kind)
    BY DEF Created
  <2>2. Len(s) + j \in 1..Len(s \o t) /\ (s \o t)[Len(s) + j] = create(kind)
    BY <2>1, <1>1
  <2>3. QED
    BY <2>2 DEF Created
<1>5. QED
  BY <1>2, <1>3, <1>4

LEMMA Concat ==
  ASSUME NEW s, NEW t, NEW kinds, Ordered({}, s), Created(s) = kinds, Ordered(kinds, t)
  PROVE  Ordered({}, s \o t) /\ Created(s \o t) = kinds \cup Created(t)
<1>1. Ordered({} \cup Created(s), t)
  <2>1. {} \cup Created(s) = kinds
    OBVIOUS
  <2>2. QED
    BY <2>1
<1>2. Ordered({}, s \o t)
  BY <1>1, OrderedConcat
<1>3. s \in Seq(ScriptSteps) /\ t \in Seq(ScriptSteps)
  BY DEF Ordered
<1>4. QED
  BY <1>2, <1>3, CreatedConcat

(* The parts of the scripts: in order, and what they create.                *)
LEMMA PartsOrdered ==
  /\ Ordered({}, deployHasher)
  /\ Ordered({"Hasher"}, deployVKeysAndVerifier)
  /\ Ordered({"Hasher", "VKeys", "Verifier"}, deployTransferExecutor)
<1> USE DEF Ordered, InOrder, Before, ScriptSteps, create, writeDeployment, Uses, KindOf,
            Kinds, Entries, Admins, Proxies
<1>1. Ordered({}, deployHasher)
  BY DEF deployHasher
<1>2. Ordered({"Hasher"}, deployVKeysAndVerifier)
  BY DEF deployVKeysAndVerifier
<1>3. Ordered({"Hasher", "VKeys", "Verifier"}, deployTransferExecutor)
  BY DEF deployTransferExecutor
<1>4. QED
  BY <1>1, <1>2, <1>3

LEMMA PartsCreated ==
  /\ Created(deployHasher) = {"Hasher"}
  /\ Created(deployVKeysAndVerifier) = {"VKeys", "Verifier"}
  /\ Created(deployTransferExecutor) = {"TransferExecutor"}
  /\ Created(deployGasSponsorImplementation) = {"GasSponsor"}
  /\ Created(deployMalleableMatchConnectorImplementation) = {"MalleableMatchConnector"}
  BY DEF Created, create, writeDeployment, Kinds, deployHasher, deployVKeysAndVerifier,
         deployTransferExecutor, deployGasSponsorImplementation,
         deployMalleableMatchConnectorImplementation

LEMMA CoreOrdered ==
  Ordered({}, deployCore) /\ "GasSponsorProxy" \notin Created(deployCore)
<1> DEFINE rest == <<create("Darkpool"), create("DarkpoolProxy"),
                     writeDeployment("Darkpool"), writeDeployment("DarkpoolProxy"),
                     writeDeployment("ProxyAdmin")>>
<1>1. /\ Ordered({}, deployHasher \o deployVKeysAndVerifier)
      /\ Created(deployHasher \o deployVKeysAndVerifier) = {"Hasher", "VKeys", "Verifier"}
  <2>1. {"Hasher"} \cup {"VKeys", "Verifier"} = {"Hasher", "VKeys", "Verifier"}
    OBVIOUS
  <2>2. QED
    BY <2>1, PartsOrdered, PartsCreated, Concat
<1>2. /\ Ordered({}, (deployHasher \o deployVKeysAndVerifier) \o deployTransferExecutor)
      /\ Created((deployHasher \o deployVKeysAndVerifier) \o deployTransferExecutor)
           = {"Hasher", "VKeys", "Verifier", "TransferExecutor"}
  <2>1. {"Hasher", "VKeys", "Verifier"} \cup {"TransferExecutor"}
          = {"Hasher", "VKeys", "Verifier", "TransferExecutor"}
    OBVIOUS
  <2>2. QED
    BY <1>1, <2>1, PartsOrdered, PartsCreated, Concat
<1>3. Ordered({"Hasher", "VKeys", "Verifier", "TransferExecutor"}, rest)
  BY DEF Ordered, InOrder, Before, ScriptSteps, create, writeDeployment, Uses, KindOf,
         Kinds, Entries, Admins, Proxies
<1>4. Created(rest) = {"Darkpool", "DarkpoolProxy"}
  BY DEF Created, create, writeDeployment, Kinds
<1> HIDE DEF rest
<1>5. /\ Ordered({}, ((deployHasher \o deployVKeysAndVerifier) \o deployTransferExecutor) \o rest)
      /\ Created(((deployHasher \o deployVKeysAndVerifier) \o deployTransferExecutor) \o rest)
           = {"Hasher", "VKeys", "Verifier", "TransferExecutor"} \cup {"Darkpool", "DarkpoolProxy"}
  BY <1>2, <1>3, <1>4, Concat
<1>6. deployCore = ((deployHasher \o deployVKeysAndVerifier) \o deployTransferExecutor) \o rest
  BY DEF deployCore, rest
<1>7. QED
  BY <1>5, <1>6

LEMMA SponsorOrdered ==
  Ordered({}, deployGasSponsor) /\ "DarkpoolProxy" \notin Created(deployGasSponsor)
<1> DEFINE rest == <<create("GasSponsorProxy"), writeDeployment("GasSponsorProxy"),
                     writeDeployment("GasSponsorProxyAdmin")>>
<1>1. Ordered({}, deployGasSponsorImplementation)
  BY DEF Ordered, InOrder, Before, ScriptSteps, create, writeDeployment, Uses, KindOf,
         Kinds, Entries, Admins, Proxies, deployGasSponsorImplementation
<1>2. Ordered({"GasSponsor"}, rest)
  BY DEF Ordered, InOrder, Before, ScriptSteps, create, writeDeployment, Uses, KindOf,
         Kinds, Entries, Admins, Proxies, Implementation
<1>3. Created(rest) = {"GasSponsorProxy"}
  BY DEF Created, create, writeDeployment, Kinds
<1> HIDE DEF rest
<1>4. /\ Ordered({}, deployGasSponsorImplementation \o rest)
      /\ Created(deployGasSponsorImplementation \o rest) = {"GasSponsor"} \cup {"GasSponsorProxy"}
  BY <1>1, <1>2, <1>3, PartsCreated, Concat
<1>5. deployGasSponsor = deployGasSponsorImplementation \o rest
  BY DEF deployGasSponsor, rest
<1>6. QED
  BY <1>4, <1>5

LEMMA ConnectorOrdered == Ordered({}, deployMalleableMatchConnector)
<1> DEFINE rest == <<create("MalleableMatchConnectorProxy"),
                     writeDeployment("MalleableMatchConnectorProxy"),
                     writeDeployment("MalleableMatchConnectorProxyAdmin")>>
<1>1. Ordered({}, deployMalleableMatchConnectorImplementation)
  BY DEF Ordered, InOrder, Before, ScriptSteps, create, writeDeployment, Uses, KindOf,
         Kinds, Entries, Admins, Proxies, deployMalleableMatchConnectorImplementation
<1>2. Ordered({"MalleableMatchConnector"}, rest)
  BY DEF Ordered, InOrder, Before, ScriptSteps, create, writeDeployment, Uses, KindOf,
         Kinds, Entries, Admins, Proxies, Implementation
<1> HIDE DEF rest
<1>3. Ordered({}, deployMalleableMatchConnectorImplementation \o rest)
  BY <1>1, <1>2, PartsCreated, Concat
<1>4. QED
  BY <1>3 DEF deployMalleableMatchConnector, rest

LEMMA SmallScriptsOrdered ==
  /\ Ordered({}, deployDarkpoolImplementation)
  /\ Ordered({}, deployGasSponsorImplementation)
  /\ Ordered({}, deployMalleableMatchConnectorImplementation)
  /\ Ordered({}, DeployDummyERC20)
  /\ Ordered({}, DeployWethMock)
<1> USE DEF Ordered, InOrder, Before, ScriptSteps, create, writeDeployment, Uses, KindOf,
            Kinds, Entries, Admins, Proxies
<1>1. Ordered({}, deployDarkpoolImplementation)
  BY DEF deployDarkpoolImplementation
<1>2. Ordered({}, deployGasSponsorImplementation)
  BY DEF deployGasSponsorImplementation
<1>3. Ordered({}, deployMalleableMatchConnectorImplementation)
  BY DEF deployMalleableMatchConnectorImplementation
<1>4. Ordered({}, DeployDummyERC20)
  BY DEF DeployDummyERC20
<1>5. Ordered({}, DeployWethMock)
  BY DEF DeployWethMock
<1>6. QED
  BY <1>1, <1>2, <1>3, <1>4, <1>5

(* Every script is in order, and only its own script creates a proxy that   *)
(* is given a key.                                                          *)
LEMMA ScriptsOrdered ==
  ASSUME NEW name \in ScriptNames
  PROVE  Ordered({}, Script(name))
  BY CoreOrdered, SponsorOrdered, ConnectorOrdered, SmallScriptsOrdered
     DEF ScriptNames, Script

LEMMA KeyedProxies ==
  /\ "GasSponsorProxy" \notin Created(Script("Deploy"))
  /\ "DarkpoolProxy" \notin Created(Script("DeployGasSponsor"))
  BY CoreOrdered, SponsorOrdered DEF Script

-----------------------------------------------------------------------------
(* The inductive invariant.  While forge runs, its transactions are those   *)
(* of the steps done; what they use, and what has been written, are the     *)
(* places of others among them; and the ones sent are on the chain in order *)
(* or have failed.                                                          *)

ForgeRuns == tool.pc \in {"simulate", "broadcast"}

Control ==
    /\ tool.pc = "have_key" => tool.cmd = "deploy-darkpool"
    /\ tool.pc \in {"simulate", "broadcast", "exited"} => forge.script \in ScriptNames
    /\ ForgeRuns => forge.step # 0

Done(j) == tool.pc = "simulate" => j < forge.step

Collected ==
    ForgeRuns =>
        \A j \in 1..Len(Steps) :
            Steps[j].op = "create" /\ Done(j) =>
                \E i \in 1..Len(forge.txs) : forge.txs[i].kind = Steps[j].name

Wired ==
    ForgeRuns =>
        \A i \in 1..Len(forge.txs) : \A u \in forge.txs[i].uses :
            \E k \in 1..Len(forge.txs) : u = <<forge.txs[k].kind, forge.base + k>>

Written ==
    ForgeRuns =>
        \A j \in 1..Len(Steps) :
            Steps[j].op = "write" /\ Done(j) =>
                /\ Steps[j].name \in torn
                /\ \E i \in 1..Len(forge.txs) :
                      /\ forge.txs[i].kind = KindOf(Steps[j].name)
                      /\ deployments[Steps[j].name] = forge.base + i

SentInOrder ==
    ForgeRuns =>
        /\ forge.sent <= Len(forge.txs) /\ forge.base + forge.sent <= Len(chain)
        /\ tool.pc = "simulate" => forge.sent = 0
        /\ \A i \in 1..forge.sent : chain[forge.base + i] \in {forge.txs[i], Failed}

ForgeInv == Control /\ Collected /\ Wired /\ Written /\ SentInOrder

IInv == TypeOK /\ ForgeInv /\ EntriesDeployed /\ WiredToDeployed

(* With nothing deployed yet, it holds.                                     *)
THEOREM InitIInv == Init => IInv
<1> SUFFICES ASSUME Init PROVE IInv
  OBVIOUS
<1>1. NoTool.pc = "idle"
  BY DEF NoTool
<1>2. TypeOK
  BY DEF Init, TypeOK, NoTool, NoArgs, NoForge, Args, Transactions
<1>3. ForgeInv
  BY <1>1 DEF Init, ForgeInv, Control, Collected, Wired, Written, SentInOrder, ForgeRuns
<1>4. EntriesDeployed /\ WiredToDeployed
  BY DEF Init, EntriesDeployed, WiredToDeployed
<1>5. QED
  BY <1>2, <1>3, <1>4 DEF IInv

(* What is on file for good stays there, and on the chain.                  *)
LEMMA EntriesStay ==
  ASSUME TypeOK, EntriesDeployed, WiredToDeployed,
         torn \subseteq torn', chain' \in Seq(Transactions), Len(chain) <= Len(chain'),
         \A n \in 1..Len(chain) : chain'[n] = chain[n],
         \A e \in Entries \ torn' : deployments'[e] = deployments[e]
  PROVE  EntriesDeployed' /\ WiredToDeployed'
<1>1. chain \in Seq(Transactions)
  BY DEF TypeOK
<1>2. ASSUME NEW n \in DOMAIN chain
      PROVE  n \in DOMAIN chain' /\ chain'[n] = chain[n]
  BY <1>1
<1>3. EntriesDeployed'
  <2> SUFFICES ASSUME NEW e \in Entries \ torn', deployments'[e] # 0
               PROVE  /\ deployments'[e] \in DOMAIN chain'
                      /\ chain'[deployments'[e]].kind = KindOf(e)
    BY DEF EntriesDeployed, IsDeployed
  <2>1. /\ deployments'[e] = deployments[e]
        /\ deployments[e] \in DOMAIN chain /\ chain[deployments[e]].kind = KindOf(e)
    BY DEF EntriesDeployed, IsDeployed
  <2>2. QED
    BY <2>1, <1>2
<1>4. WiredToDeployed'
  <2> SUFFICES ASSUME NEW e \in Entries \ torn', deployments'[e] # 0,
                      NEW u \in chain'[deployments'[e]].uses
               PROVE  u[2] \in DOMAIN chain' /\ chain'[u[2]].kind = u[1]
    BY DEF WiredToDeployed, IsDeployed
  <2>1. /\ deployments'[e] = deployments[e]
        /\ deployments[e] \in DOMAIN chain
        /\ \A v \in chain[deployments[e]].uses : v[2] \in DOMAIN chain /\ chain[v[2]].kind = v[1]
    BY DEF EntriesDeployed, WiredToDeployed, IsDeployed
  <2>2. chain'[deployments'[e]] = chain[deployments[e]]
    BY <2>1, <1>2
  <2>3. QED
    BY <2>1, <2>2, <1>2
<1>5. QED
  BY <1>3, <1>4

(* What forge's steps are, in any state in which it runs.                   *)
LEMMA StepsOrdered ==
  ASSUME IInv, tool.pc \in {"simulate", "broadcast", "exited"}
  PROVE  /\ Steps \in Seq(ScriptSteps)
         /\ \A k \in 1..Len(Steps) : InOrder({}, Steps, k)
  BY ScriptsOrdered DEF IInv, ForgeInv, Control, Ordered, Steps

(* An address that the script uses is the place of a contract it created.   *)
LEMMA AddressIsPlace ==
  ASSUME IInv, NEW kind, \E i \in 1..Len(forge.txs) : forge.txs[i].kind = kind
  PROVE  \E i \in 1..Len(forge.txs) :
            forge.txs[i].kind = kind /\ AddressOf(kind) = forge.base + i
<1>1. DOMAIN forge.txs = 1..Len(forge.txs)
  BY DEF IInv, TypeOK
<1>2. QED
  BY <1>1 DEF AddressOf

(* Before a step of the simulation, what is used at it has been created.    *)
LEMMA UsedIsCreated ==
  ASSUME IInv, tool.pc = "simulate", forge.step \in DOMAIN Steps, NEW kind,
         Before({}, Steps, forge.step, kind)
  PROVE  \E i \in 1..Len(forge.txs) :
            forge.txs[i].kind = kind /\ AddressOf(kind) = forge.base + i
<1>1. Steps \in Seq(ScriptSteps)
  BY StepsOrdered
<1>2. PICK j \in 1..forge.step - 1 : Steps[j] = create(kind)
  BY DEF Before
<1>3. j \in 1..Len(Steps) /\ Done(j) /\ Steps[j].op = "create" /\ Steps[j].name = kind
  BY <1>1, <1>2 DEF create, Done, IInv, TypeOK
<1>4. \E i \in 1..Len(forge.txs) : forge.txs[i].kind = kind
  BY <1>3 DEF IInv, ForgeInv, Collected, ForgeRuns
<1>5. QED
  BY <1>4, AddressIsPlace

-----------------------------------------------------------------------------
(* Steps outside of forge: nothing that the invariant relates changes.      *)
LEMMA OutsideForge ==
  ASSUME IInv, TypeOK', UNCHANGED <<chain, deployments, torn>>, Control', ~ForgeRuns'
  PROVE  IInv'
<1>1. EntriesDeployed' /\ WiredToDeployed'
  BY EntriesStay DEF IInv, TypeOK
<1>2. Collected' /\ Wired' /\ Written' /\ SentInOrder'
  BY DEF Collected, Wired, Written, SentInOrder
<1>3. QED
  BY <1>1, <1>2 DEF IInv, ForgeInv

LEMMA FinishStep ==
  ASSUME IInv, NEW outcome \in {"success", "error", "killed"}, Finish(outcome)
  PROVE  IInv'
<1>1. TypeOK'
  BY DEF Finish, IInv, TypeOK, disk, NoTool, NoArgs, NoForge, Args, Transactions
<1>2. tool'.pc = "idle"
  BY DEF Finish, NoTool
<1>3. Control' /\ ~ForgeRuns'
  BY <1>2 DEF Control, ForgeRuns
<1>4. QED
  BY <1>1, <1>3, OutsideForge DEF Finish, disk

LEMMA ObtainStep ==
  ASSUME IInv, tool.pc = "args", NEW v \in {"operator", "zero", "given"} \cup Nat, Obtain(v),
         Field = "owner" => v \in {"operator", "zero"},
         Field \in {"darkpool", "gas_sponsor"} => v \in Nat
  PROVE  IInv'
<1>1. TypeOK'
  <2>1. args' \in Args
    BY DEF Obtain, IInv, TypeOK, Args
  <2>2. tool' = [tool EXCEPT !.field = @ + 1, !.asking = FALSE]
        /\ UNCHANGED <<chain, disk, forge, report, runs>>
    BY DEF Obtain
  <2>3. tool.field + 1 \in Nat
    BY DEF IInv, TypeOK
  <2>4. QED
    BY <2>1, <2>2, <2>3 DEF IInv, TypeOK, disk
<1>2. tool'.pc = "args"
  BY DEF Obtain, IInv, TypeOK
<1>3. Control' /\ ~ForgeRuns'
  BY <1>2 DEF Control, ForgeRuns
<1>4. QED
  BY <1>1, <1>3, OutsideForge DEF Obtain, disk

LEMMA ArgumentStep ==
  ASSUME IInv, TakeArgument \/ Ask \/ Answer
  PROVE  IInv'
<1>1. ASSUME NEW v \in Values(Field)
      PROVE  /\ v \in {"operator", "zero", "given"} \cup Nat
             /\ Field = "owner" => v \in {"operator", "zero"}
             /\ Field \in {"darkpool", "gas_sponsor"} => v \in Nat
  <2>1. deployments["DarkpoolProxy"] \in Nat /\ deployments["GasSponsorProxy"] \in Nat
    BY DEF IInv, TypeOK, Entries, Kinds
  <2>2. QED
    BY <2>1 DEF Values
<1>2. CASE TakeArgument
  BY <1>1, <1>2, ObtainStep DEF TakeArgument, AtField
<1>3. CASE Ask
  <2>1. TypeOK'
    BY <1>3 DEF Ask, IInv, TypeOK, disk
  <2>2. tool'.pc = "args"
    BY <1>3 DEF Ask, AtField, IInv, TypeOK
  <2>3. Control' /\ ~ForgeRuns'
    BY <2>2 DEF Control, ForgeRuns
  <2>4. QED
    BY <1>3, <2>1, <2>3, OutsideForge DEF Ask, disk
<1>4. CASE prompt_for_eth_address
  BY <1>1, <1>4, ObtainStep DEF prompt_for_eth_address, AtField
<1>5. CASE prompt_for_f64 \/ prompt_for_u8 \/ prompt_for_input
  <2>1. tool.pc = "args" /\ Obtain("given")
        /\ Field \in {"protocol_fee_rate", "name", "symbol", "decimals"}
    BY <1>5 DEF prompt_for_f64, prompt_for_u8, prompt_for_input, AtField, Field
  <2>2. QED
    BY <2>1, ObtainStep
<1>6. QED
  BY <1>2, <1>3, <1>4, <1>5 DEF Answer

LEMMA GenerateStep ==
  ASSUME IInv, NEW path \in KeyFiles, GenerateKey(path)
  PROVE  IInv'
<1>1. newest' \in [KeyFiles -> Nat]
  BY DEF GenerateKey, IInv, TypeOK
<1>2. newest'[path] \in Nat
  BY <1>1
<1>3. TypeOK'
  BY <1>1, <1>2 DEF GenerateKey, IInv, TypeOK, Args
<1>4. tool'.pc = "save_key"
  BY DEF GenerateKey, IInv, TypeOK
<1>5. Control' /\ ~ForgeRuns'
  BY <1>4 DEF Control, ForgeRuns
<1>6. QED
  BY <1>3, <1>5, OutsideForge DEF GenerateKey

LEMMA KeyStep ==
  ASSUME IInv, generate_auth_key_pair \/ get_fee_key \/ SaveKey
  PROVE  IInv'
<1>1. CASE generate_auth_key_pair
  BY <1>1, GenerateStep DEF generate_auth_key_pair, KeyFiles
<1>2. CASE generate_fee_encryption_key
  BY <1>2, GenerateStep DEF generate_fee_encryption_key, KeyFiles
<1>3. CASE derive_fee_encryption_key
  <2>1. TypeOK'
    BY <1>3 DEF derive_fee_encryption_key, IInv, TypeOK, disk
  <2>2. tool'.pc = "have_key" /\ tool'.cmd = "deploy-darkpool"
    BY <1>3 DEF derive_fee_encryption_key, NeedsFeeKey, IInv, TypeOK
  <2>3. Control' /\ ~ForgeRuns'
    BY <2>2 DEF Control, ForgeRuns
  <2>4. QED
    BY <1>3, <2>1, <2>3, OutsideForge DEF derive_fee_encryption_key, disk
<1>4. CASE SaveKey
  <2>1. keyFile' \in [KeyFiles -> Nat]
    BY <1>4 DEF SaveKey, SavedKey, IInv, TypeOK, Args
  <2>2. TypeOK'
    <3>1. CASE tool.cmd = "deploy-darkpool"
      BY <1>4, <2>1, <3>1 DEF SaveKey, IInv, TypeOK
    <3>2. CASE tool.cmd # "deploy-darkpool"
      <4>1. tool.field + 1 \in Nat
        BY DEF IInv, TypeOK
      <4>2. tool' = [tool EXCEPT !.pc = "args", !.field = @ + 1]
        BY <1>4, <3>2 DEF SaveKey
      <4>3. UNCHANGED <<chain, deployments, newest, torn, args, forge, report, runs>>
        BY <1>4 DEF SaveKey
      <4>4. QED
        BY <2>1, <4>1, <4>2, <4>3 DEF IInv, TypeOK
    <3>3. QED
      BY <3>1, <3>2
  <2>3. \/ tool'.pc = "have_key" /\ tool'.cmd = "deploy-darkpool"
        \/ tool'.pc = "args"
    <3>1. CASE tool.cmd = "deploy-darkpool"
      BY <1>4, <3>1 DEF SaveKey, IInv, TypeOK
    <3>2. CASE tool.cmd # "deploy-darkpool"
      BY <1>4, <3>2 DEF SaveKey, IInv, TypeOK
    <3>3. QED
      BY <3>1, <3>2
  <2>4. Control' /\ ~ForgeRuns'
    BY <2>3 DEF Control, ForgeRuns
  <2>5. QED
    BY <1>4, <2>2, <2>4, OutsideForge DEF SaveKey
<1>5. QED
  BY <1>1, <1>2, <1>3, <1>4 DEF get_fee_key

(* Forge starts with nothing collected, at the account's next nonce.        *)
LEMMA ForgeStarts ==
  ASSUME IInv, NEW script \in ScriptNames, NEW a \in Args, forge_script(script, a)
  PROVE  IInv'
<1>1. /\ forge' = [script |-> script, args |-> a, step |-> 1, base |-> Len(chain),
                   txs |-> << >>, sent |-> 0, status |-> 0]
      /\ tool' = [tool EXCEPT !.pc = "simulate"] /\ tool'.pc = "simulate"
      /\ UNCHANGED <<chain, disk, args, report, runs>>
  BY DEF forge_script, NoForge, IInv, TypeOK
<1>2. TypeOK'
  <2>1. forge' \in [script : ScriptNames \cup {"none"}, args : Args, step : Nat, base : Nat,
                    txs : Seq(Transactions), sent : Nat, status : Nat]
    BY <1>1 DEF IInv, TypeOK
  <2>2. QED
    BY <1>1, <2>1 DEF IInv, TypeOK, disk
<1>3. EntriesDeployed' /\ WiredToDeployed'
  BY <1>1, EntriesStay DEF IInv, TypeOK, disk
<1>4. Control'
  BY <1>1 DEF Control, ForgeRuns
<1>5. Collected' /\ Written'
  <2>1. \A j \in 1..Len(Steps') : ~Done(j)'
    BY <1>1 DEF Done
  <2>2. QED
    BY <2>1 DEF Collected, Written
<1>6. Wired' /\ SentInOrder'
  BY <1>1 DEF Wired, SentInOrder, IInv, TypeOK
<1>7. QED
  BY <1>2, <1>3, <1>4, <1>5, <1>6 DEF IInv, ForgeInv

LEMMA HandlerStep ==
  ASSUME IInv, Handler
  PROVE  IInv'
<1>1. /\ NoArgs \in Args
      /\ [owner |-> args.owner, target |-> 0, key |-> args.key] \in Args
      /\ [owner |-> args.owner, target |-> args.target, key |-> args.key] \in Args
      /\ [owner |-> args.owner, target |-> args.target, key |-> 0] \in Args
  BY DEF NoArgs, Args, IInv, TypeOK
<1>2. QED
  BY <1>1, ForgeStarts
     DEF Handler, ScriptNames, deploy_darkpool, deploy_gas_sponsor,
         deploy_malleable_match_connector, deploy_darkpool_implementation,
         deploy_gas_sponsor_implementation,
         deploy_malleable_match_connector_implementation, deploy_erc20, deploy_weth

-----------------------------------------------------------------------------
(* Steps of forge.                                                          *)
LEMMA ExitStep ==
  ASSUME IInv, ForgeRuns, NEW status \in Nat, ForgeExits(status), UNCHANGED torn
  PROVE  IInv'
<1>1. /\ forge' = [forge EXCEPT !.status = status] /\ forge'.script = forge.script
      /\ tool' = [tool EXCEPT !.pc = "exited"] /\ tool'.pc = "exited"
      /\ UNCHANGED <<chain, deployments, keyFile, newest, torn, args, report, runs>>
  BY DEF ForgeExits, IInv, TypeOK
<1>2. TypeOK'
  BY <1>1 DEF IInv, TypeOK
<1>3. Control' /\ ~ForgeRuns'
  BY <1>1 DEF Control, ForgeRuns, IInv, ForgeInv
<1>4. QED
  BY <1>1, <1>2, <1>3, OutsideForge

LEMMA SimulateCreateStep ==
  ASSUME IInv, SimulateCreate
  PROVE  IInv'
<1> DEFINE kind == Steps[forge.step].name
           tx   == Transaction(kind)
<1>1. /\ tool.pc = "simulate" /\ forge.step \in DOMAIN Steps
      /\ Steps[forge.step].op = "create"
      /\ forge' = [forge EXCEPT !.step = @ + 1, !.txs = Append(@, tx)]
      /\ UNCHANGED <<chain, deployments, keyFile, newest, torn, tool, args, report, runs>>
  BY DEF SimulateCreate, AtStep, disk
<1>2. /\ Steps \in Seq(ScriptSteps) /\ forge.step \in 1..Len(Steps)
      /\ forge.txs \in Seq(Transactions) /\ forge.step \in Nat /\ forge.base \in Nat
  BY <1>1, StepsOrdered DEF IInv, TypeOK
<1>3. kind \in Kinds /\ \A u \in Uses(kind) : Before({}, Steps, forge.step, u)
  BY <1>1, <1>2, StepsOrdered DEF InOrder
<1>4. \A u \in Uses(kind) : \E i \in 1..Len(forge.txs) :
          forge.txs[i].kind = u /\ AddressOf(u) = forge.base + i
  BY <1>1, <1>3, UsedIsCreated
<1>5. \A u \in Uses(kind) : u \in Kinds /\ AddressOf(u) \in Nat
  <2>1. Uses(kind) \subseteq Kinds
    BY <1>3 DEF Uses, Kinds, Proxies, Implementation
  <2>2. QED
    BY <1>2, <1>4, <2>1
<1>6. /\ tx.kind = kind
      /\ tx.uses = {<<u, AddressOf(u)>> : u \in Uses(kind)}
      /\ tx \in Transactions
  <2>1. {<<u, AddressOf(u)>> : u \in Uses(kind)} \in SUBSET (Kinds \X Nat)
    BY <1>5
  <2>2. forge.args.target \in Nat /\ forge.args.key \in Nat
    BY DEF IInv, TypeOK, Args
  <2>3. QED
    BY <1>3, <2>1, <2>2 DEF Transaction, Transactions
<1> HIDE DEF kind, tx
<1>7. /\ forge'.script = forge.script /\ Steps' = Steps
      /\ forge'.step = forge.step + 1 /\ forge'.base = forge.base /\ forge'.sent = forge.sent
      /\ forge'.txs = Append(forge.txs, tx) /\ forge'.args = forge.args
      /\ forge'.status = forge.status
      /\ forge' \in [script : ScriptNames \cup {"none"}, args : Args, step : Nat, base : Nat,
                     txs : Seq(Transactions), sent : Nat, status : Nat]
  <2>1. forge \in [script : ScriptNames \cup {"none"}, args : Args, step : Nat, base : Nat,
                   txs : Seq(Transactions), sent : Nat, status : Nat]
    BY DEF IInv, TypeOK
  <2>2. forge.step + 1 \in Nat /\ Append(forge.txs, tx) \in Seq(Transactions)
    BY <1>2, <1>6
  <2>3. forge' = [forge EXCEPT !.step = forge.step + 1, !.txs = Append(forge.txs, tx)]
    BY <1>1, <2>1
  <2>4. forge'.script = forge.script
    BY <2>1, <2>3
  <2>5. Steps' = Steps
    BY <2>4 DEF Steps
  <2>6. QED
    BY <2>1, <2>2, <2>3, <2>5
<1>8. /\ Len(forge'.txs) = Len(forge.txs) + 1 /\ Len(forge.txs) \in Nat
      /\ \A i \in 1..Len(forge.txs) : forge'.txs[i] = forge.txs[i]
      /\ forge'.txs[Len(forge.txs) + 1] = tx
  BY <1>2, <1>6, <1>7
<1>9. TypeOK'
  BY <1>1, <1>7 DEF IInv, TypeOK
<1>10. EntriesDeployed' /\ WiredToDeployed'
  BY <1>1, EntriesStay DEF IInv, TypeOK
<1>11. Control'
  BY <1>1, <1>2, <1>7 DEF Control, ForgeRuns, IInv, ForgeInv
<1>12. \A j \in 1..Len(Steps) : Done(j)' => j = forge.step \/ Done(j)
  BY <1>1, <1>2, <1>7 DEF Done
<1>13. Collected'
  <2> SUFFICES ASSUME NEW j \in 1..Len(Steps), Steps[j].op = "create", Done(j)'
               PROVE  \E i \in 1..Len(forge'.txs) : forge'.txs[i].kind = Steps[j].name
    BY <1>7 DEF Collected
  <2>1. CASE j = forge.step
    <3>1. Len(forge.txs) + 1 \in 1..Len(forge'.txs)
      BY <1>8
    <3>2. QED
      BY <2>1, <3>1, <1>8, <1>6 DEF kind
  <2>2. CASE Done(j)
    <3>1. PICK i \in 1..Len(forge.txs) : forge.txs[i].kind = Steps[j].name
      BY <2>2, <1>1 DEF Collected, ForgeRuns, IInv, ForgeInv
    <3>2. i \in 1..Len(forge'.txs) /\ forge'.txs[i] = forge.txs[i]
      BY <1>8
    <3>3. QED
      BY <3>1, <3>2
  <2>3. QED
    BY <1>12, <2>1, <2>2
<1>14. Wired'
  <2> SUFFICES ASSUME NEW i \in 1..Len(forge'.txs), NEW u \in forge'.txs[i].uses
               PROVE  \E k \in 1..Len(forge'.txs) :
                         u = <<forge'.txs[k].kind, forge.base + k>>
    BY <1>7 DEF Wired
  <2>1. \E k \in 1..Len(forge.txs) : u = <<forge.txs[k].kind, forge.base + k>>
    <3>1. CASE i \in 1..Len(forge.txs)
      BY <3>1, <1>1, <1>8 DEF Wired, ForgeRuns, IInv, ForgeInv
    <3>2. CASE i = Len(forge.txs) + 1
      <4>1. PICK v \in Uses(kind) : u = <<v, AddressOf(v)>>
        BY <3>2, <1>6, <1>8
      <4>2. QED
        BY <4>1, <1>4 DEF kind
    <3>3. QED
      BY <3>1, <3>2, <1>8
  <2>2. QED
    BY <2>1, <1>8
<1>15. Written'
  <2> SUFFICES ASSUME NEW j \in 1..Len(Steps), Steps[j].op = "write", Done(j)'
               PROVE  /\ Steps[j].name \in torn
                      /\ \E i \in 1..Len(forge'.txs) :
                            /\ forge'.txs[i].kind = KindOf(Steps[j].name)
                            /\ deployments[Steps[j].name] = forge.base + i
    BY <1>1, <1>7 DEF Written
  <2>1. Done(j)
    BY <1>1, <1>12
  <2>2. /\ Steps[j].name \in torn
        /\ \E i \in 1..Len(forge.txs) :
              /\ forge.txs[i].kind = KindOf(Steps[j].name)
              /\ deployments[Steps[j].name] = forge.base + i
    BY <1>1, <2>1 DEF Written, ForgeRuns, IInv, ForgeInv
  <2>3. QED
    BY <2>2, <1>8
<1>16. SentInOrder'
  <2>1. /\ forge.sent <= Len(forge.txs) /\ forge.base + forge.sent <= Len(chain)
        /\ tool.pc = "simulate" => forge.sent = 0
        /\ \A i \in 1..forge.sent : chain[forge.base + i] \in {forge.txs[i], Failed}
    BY <1>1 DEF SentInOrder, ForgeRuns, IInv, ForgeInv
  <2>2. forge.sent \in Nat
    BY <1>1 DEF IInv, TypeOK
  <2>3. QED
    BY <1>1, <1>2, <1>7, <1>8, <2>1, <2>2 DEF SentInOrder
<1>17. QED
  BY <1>9, <1>10, <1>11, <1>13, <1>14, <1>15, <1>16 DEF IInv, ForgeInv

LEMMA SimulateWriteStep ==
  ASSUME IInv, SimulateWrite
  PROVE  IInv'
<1> DEFINE e == Steps[forge.step].name
<1>1. /\ tool.pc = "simulate" /\ forge.step \in DOMAIN Steps
      /\ Steps[forge.step].op = "write"
      /\ deployments' = [deployments EXCEPT ![e] = AddressOf(KindOf(e))]
      /\ torn' = torn \cup {e}
      /\ forge' = [forge EXCEPT !.step = @ + 1]
      /\ UNCHANGED <<chain, keyFile, newest, tool, args, report, runs>>
  BY DEF SimulateWrite, AtStep
<1>2. /\ Steps \in Seq(ScriptSteps) /\ forge.step \in 1..Len(Steps)
      /\ forge.txs \in Seq(Transactions) /\ forge.step \in Nat /\ forge.base \in Nat
  BY <1>1, StepsOrdered DEF IInv, TypeOK
<1>3. e \in Entries /\ Before({}, Steps, forge.step, KindOf(e))
  BY <1>1, <1>2, StepsOrdered DEF InOrder
<1>4. PICK p \in 1..Len(forge.txs) :
          forge.txs[p].kind = KindOf(e) /\ AddressOf(KindOf(e)) = forge.base + p
  BY <1>1, <1>3, UsedIsCreated
<1>5. /\ deployments' \in [Entries -> Nat] /\ deployments'[e] = forge.base + p
      /\ \A f \in Entries : f # e => deployments'[f] = deployments[f]
  BY <1>1, <1>2, <1>3, <1>4 DEF IInv, TypeOK
<1>6. /\ forge'.script = forge.script /\ Steps' = Steps
      /\ forge'.step = forge.step + 1 /\ forge'.base = forge.base /\ forge'.sent = forge.sent
      /\ forge'.txs = forge.txs
      /\ forge' \in [script : ScriptNames \cup {"none"}, args : Args, step : Nat, base : Nat,
                     txs : Seq(Transactions), sent : Nat, status : Nat]
  <2>1. forge \in [script : ScriptNames \cup {"none"}, args : Args, step : Nat, base : Nat,
                   txs : Seq(Transactions), sent : Nat, status : Nat]
    BY DEF IInv, TypeOK
  <2>2. forge.step + 1 \in Nat /\ forge.txs \in Seq(Transactions)
    BY <1>2
  <2>3. forge' = [forge EXCEPT !.step = forge.step + 1, !.txs = forge.txs]
    BY <1>1, <2>1
  <2>4. forge'.script = forge.script
    BY <2>1, <2>3
  <2>5. Steps' = Steps
    BY <2>4 DEF Steps
  <2>6. QED
    BY <2>1, <2>2, <2>3, <2>5
<1> HIDE DEF e
<1>7. TypeOK'
  BY <1>1, <1>3, <1>5, <1>6 DEF IInv, TypeOK
<1>8. EntriesDeployed' /\ WiredToDeployed'
  BY <1>1, <1>5, EntriesStay DEF IInv, TypeOK
<1>9. Control'
  BY <1>1, <1>2, <1>6 DEF Control, ForgeRuns, IInv, ForgeInv
<1>10. \A j \in 1..Len(Steps) : Done(j)' => j = forge.step \/ Done(j)
  BY <1>1, <1>2, <1>6 DEF Done
<1>11. Collected'
  BY <1>1, <1>6, <1>10 DEF Collected, ForgeRuns, IInv, ForgeInv
<1>12. Wired'
  BY <1>1, <1>6 DEF Wired, ForgeRuns, IInv, ForgeInv
<1>13. Written'
  <2> SUFFICES ASSUME NEW j \in 1..Len(Steps), Steps[j].op = "write", Done(j)'
               PROVE  /\ Steps[j].name \in torn'
                      /\ \E i \in 1..Len(forge.txs) :
                            /\ forge.txs[i].kind = KindOf(Steps[j].name)
                            /\ deployments'[Steps[j].name] = forge.base + i
    BY <1>6 DEF Written
  <2>1. CASE Steps[j].name = e
    BY <2>1, <1>1, <1>4, <1>5
  <2>2. CASE Steps[j].name # e
    <3>1. Done(j)
      BY <2>2, <1>10 DEF e
    <3>2. Steps[j].name \in Entries
      BY <1>1, StepsOrdered DEF InOrder
    <3>3. QED
      BY <2>2, <3>1, <3>2, <1>1, <1>5 DEF Written, ForgeRuns, IInv, ForgeInv
  <2>3. QED
    BY <2>1, <2>2
<1>14. SentInOrder'
  BY <1>1, <1>6 DEF SentInOrder, ForgeRuns, IInv, ForgeInv
<1>15. QED
  BY <1>7, <1>8, <1>9, <1>11, <1>12, <1>13, <1>14 DEF IInv, ForgeInv

(* The whole script has been executed.                                      *)
LEMMA StartBroadcastStep ==
  ASSUME IInv, StartBroadcast
  PROVE  IInv'
<1>1. /\ tool.pc = "simulate" /\ forge.step \notin DOMAIN Steps
      /\ tool' = [tool EXCEPT !.pc = "broadcast"] /\ tool'.pc = "broadcast"
      /\ UNCHANGED <<chain, deployments, keyFile, newest, torn, args, forge, report, runs>>
  BY DEF StartBroadcast, disk, IInv, TypeOK
<1>2. TypeOK'
  BY <1>1 DEF IInv, TypeOK
<1>3. EntriesDeployed' /\ WiredToDeployed'
  BY <1>1, EntriesStay DEF IInv, TypeOK
<1>4. \A j \in 1..Len(Steps) : Done(j)
  <2>1. forge.step \in Nat /\ forge.step # 0
    BY <1>1 DEF IInv, TypeOK, ForgeInv, Control, ForgeRuns
  <2>2. forge.step > Len(Steps)
    BY <1>1, <2>1, StepsOrdered
  <2>3. QED
    BY <2>1, <2>2, <1>1, StepsOrdered DEF Done
<1>5. Steps' = Steps
  BY <1>1 DEF Steps
<1>6. Control' /\ Wired' /\ SentInOrder'
  BY <1>1 DEF Control, Wired, SentInOrder, ForgeRuns, IInv, ForgeInv
<1>7. Collected' /\ Written'
  BY <1>1, <1>4, <1>5 DEF Collected, Written, ForgeRuns, IInv, ForgeInv
<1>8. QED
  BY <1>2, <1>3, <1>6, <1>7 DEF IInv, ForgeInv

(* A transaction at the end of the chain leaves what was sent before it.    *)
LEMMA ChainGrows ==
  ASSUME IInv, NEW tx \in Transactions, chain' = Append(chain, tx)
  PROVE  /\ chain' \in Seq(Transactions) /\ Len(chain') = Len(chain) + 1
         /\ Len(chain) \in Nat
         /\ \A n \in 1..Len(chain) : chain'[n] = chain[n]
         /\ chain'[Len(chain) + 1] = tx
  BY DEF IInv, TypeOK

LEMMA BroadcastStep ==
  ASSUME IInv, Broadcast
  PROVE  IInv'
<1>1. /\ tool.pc = "broadcast" /\ forge.sent < Len(forge.txs)
      /\ Len(chain) = forge.base + forge.sent
      /\ Mine(forge.txs[forge.sent + 1])
      /\ forge' = [forge EXCEPT !.sent = @ + 1]
      /\ UNCHANGED <<deployments, keyFile, newest, torn, tool, args, report, runs>>
  BY DEF Broadcast, NonceTaken, disk
<1>2. /\ forge.txs \in Seq(Transactions) /\ forge.sent \in Nat /\ forge.base \in Nat
      /\ forge.sent + 1 \in 1..Len(forge.txs)
  BY <1>1 DEF IInv, TypeOK
<1>3. PICK tx \in {forge.txs[forge.sent + 1], Failed} : chain' = Append(chain, tx)
  BY <1>1 DEF Mine
<1>4. tx \in Transactions
  <2>1. forge.txs[forge.sent + 1] \in Transactions
    BY <1>2
  <2>2. Failed \in Transactions
    BY DEF Failed, Transactions
  <2>3. QED
    BY <2>1, <2>2
<1>5. /\ forge'.script = forge.script /\ forge'.step = forge.step
      /\ forge'.base = forge.base /\ forge'.txs = forge.txs /\ forge'.sent = forge.sent + 1
      /\ Steps' = Steps
      /\ forge' \in [script : ScriptNames \cup {"none"}, args : Args, step : Nat, base : Nat,
                     txs : Seq(Transactions), sent : Nat, status : Nat]
  <2>1. forge \in [script : ScriptNames \cup {"none"}, args : Args, step : Nat, base : Nat,
                   txs : Seq(Transactions), sent : Nat, status : Nat]
    BY DEF IInv, TypeOK
  <2>2. forge.sent + 1 \in Nat
    BY <1>2
  <2>3. forge' = [forge EXCEPT !.sent = forge.sent + 1]
    BY <1>1
  <2>4. forge'.script = forge.script
    BY <2>1, <2>3
  <2>5. Steps' = Steps
    BY <2>4 DEF Steps
  <2>6. QED
    BY <2>1, <2>2, <2>3, <2>5
<1>6. TypeOK'
  BY <1>1, <1>3, <1>4, <1>5, ChainGrows DEF IInv, TypeOK
<1>7. EntriesDeployed' /\ WiredToDeployed'
  BY <1>1, <1>3, <1>4, ChainGrows, EntriesStay DEF IInv, TypeOK
<1>8. Control' /\ Collected' /\ Wired' /\ Written'
  BY <1>1, <1>5 DEF Control, Collected, Wired, Written, ForgeRuns, Done, IInv, ForgeInv
<1>9. SentInOrder'
  <2>1. forge'.sent <= Len(forge'.txs) /\ forge'.base + forge'.sent <= Len(chain')
    BY <1>1, <1>2, <1>3, <1>4, <1>5, ChainGrows
  <2>2. ASSUME NEW i \in 1..forge'.sent
        PROVE  chain'[forge'.base + i] \in {forge'.txs[i], Failed}
    <3>1. CASE i \in 1..forge.sent
      <4>1. forge.base + i \in 1..Len(chain)
        BY <3>1, <1>1, <1>2
      <4>2. chain[forge.base + i] \in {forge.txs[i], Failed}
        BY <3>1, <1>1 DEF SentInOrder, ForgeRuns, IInv, ForgeInv
      <4>3. QED
        BY <4>1, <4>2, <1>3, <1>4, <1>5, ChainGrows
    <3>2. CASE i = forge.sent + 1
      <4>1. forge.base + i = Len(chain) + 1
        BY <3>2, <1>1, <1>2
      <4>2. QED
        BY <3>2, <4>1, <1>3, <1>4, <1>5, ChainGrows
    <3>3. QED
      BY <3>1, <3>2, <1>2, <1>5
  <2>3. QED
    BY <1>1, <2>1, <2>2 DEF SentInOrder
<1>10. QED
  BY <1>6, <1>7, <1>8, <1>9 DEF IInv, ForgeInv

LEMMA OtherTransactionStep ==
  ASSUME IInv, OtherTransaction
  PROVE  IInv'
<1>1. /\ chain' = Append(chain, Other) /\ Other \in Transactions
      /\ UNCHANGED <<deployments, keyFile, newest, torn, tool, args, forge, report, runs>>
  BY DEF OtherTransaction, disk, Other, Transactions
<1>2. TypeOK'
  BY <1>1, ChainGrows DEF IInv, TypeOK
<1>3. EntriesDeployed' /\ WiredToDeployed'
  BY <1>1, ChainGrows, EntriesStay DEF IInv, TypeOK
<1>4. Control' /\ Collected' /\ Wired' /\ Written'
  BY <1>1 DEF Control, Collected, Wired, Written, ForgeRuns, Done, Steps, IInv, ForgeInv
<1>5. SentInOrder'
  <2> SUFFICES ASSUME ForgeRuns
               PROVE  /\ forge.sent <= Len(forge.txs)
                      /\ forge.base + forge.sent <= Len(chain')
                      /\ tool.pc = "simulate" => forge.sent = 0
                      /\ \A i \in 1..forge.sent :
                             chain'[forge.base + i] \in {forge.txs[i], Failed}
    BY <1>1 DEF SentInOrder, ForgeRuns
  <2>1. /\ forge.sent <= Len(forge.txs) /\ forge.base + forge.sent <= Len(chain)
        /\ tool.pc = "simulate" => forge.sent = 0
        /\ \A i \in 1..forge.sent : chain[forge.base + i] \in {forge.txs[i], Failed}
        /\ forge.base \in Nat /\ forge.sent \in Nat
    BY DEF SentInOrder, IInv, ForgeInv, TypeOK
  <2>2. \A i \in 1..forge.sent : forge.base + i \in 1..Len(chain)
    BY <2>1, <1>1, ChainGrows
  <2>3. QED
    BY <2>1, <2>2, <1>1, ChainGrows
<1>6. QED
  BY <1>2, <1>3, <1>4, <1>5 DEF IInv, ForgeInv

(* When no transaction of the script has failed, each is where it was meant *)
(* to be.                                                                   *)
LEMMA AllSent ==
  ASSUME IInv, tool.pc = "broadcast", forge.sent = Len(forge.txs), FailedSent = {},
         NEW i \in 1..Len(forge.txs)
  PROVE  IsDeployed(forge.txs[i].kind, forge.base + i) /\ chain[forge.base + i] = forge.txs[i]
<1>1. /\ forge.base + forge.sent <= Len(chain)
      /\ chain[forge.base + i] \in {forge.txs[i], Failed}
      /\ forge.base \in Nat /\ forge.sent \in Nat /\ chain \in Seq(Transactions)
  BY DEF SentInOrder, ForgeRuns, IInv, ForgeInv, TypeOK
<1>2. forge.base + i \in Sent
  BY DEF Sent
<1>3. chain[forge.base + i] = forge.txs[i]
  BY <1>1, <1>2 DEF FailedSent
<1>4. forge.base + i \in DOMAIN chain
  BY <1>1
<1>5. QED
  BY <1>3, <1>4 DEF IsDeployed

LEMMA BroadcastDoneStep ==
  ASSUME IInv, BroadcastDone
  PROVE  IInv'
<1>1. CASE FailedSent # {}
  <2>1. ForgeExits(1) /\ UNCHANGED torn
    BY <1>1 DEF BroadcastDone
  <2>2. QED
    BY <2>1, ExitStep DEF BroadcastDone, ForgeRuns
<1>2. CASE FailedSent = {}
  <2>1. /\ tool.pc = "broadcast" /\ forge.sent = Len(forge.txs)
        /\ forge' = [forge EXCEPT !.status = 0] /\ forge'.script = forge.script
        /\ tool' = [tool EXCEPT !.pc = "exited"] /\ tool'.pc = "exited"
        /\ UNCHANGED <<chain, deployments, keyFile, newest, args, report, runs>>
        /\ torn' = torn \ EntriesOf(forge.script)
    BY <1>2 DEF BroadcastDone, ForgeExits, IInv, TypeOK
  <2>2. TypeOK'
    BY <2>1 DEF IInv, TypeOK
  <2>3. ForgeInv'
    BY <2>1 DEF ForgeInv, Control, Collected, Wired, Written, SentInOrder, ForgeRuns,
                IInv
  <2>4. ASSUME NEW e \in EntriesOf(forge.script)
        PROVE  /\ IsDeployed(KindOf(e), deployments[e])
               /\ \A u \in chain[deployments[e]].uses : IsDeployed(u[1], u[2])
    <3>1. PICK j \in 1..Len(Steps) : Steps[j] = writeDeployment(e)
      BY <2>1, StepsOrdered DEF EntriesOf, Steps
    <3>2. PICK i \in 1..Len(forge.txs) :
              forge.txs[i].kind = KindOf(e) /\ deployments[e] = forge.base + i
      BY <2>1, <3>1 DEF writeDeployment, Written, Done, ForgeRuns, IInv, ForgeInv
    <3>3. IsDeployed(KindOf(e), deployments[e]) /\ chain[deployments[e]] = forge.txs[i]
      BY <1>2, <2>1, <3>2, AllSent
    <3>4. ASSUME NEW u \in forge.txs[i].uses
          PROVE  IsDeployed(u[1], u[2])
      <4>1. PICK k \in 1..Len(forge.txs) : u = <<forge.txs[k].kind, forge.base + k>>
        BY <2>1 DEF Wired, ForgeRuns, IInv, ForgeInv
      <4>2. IsDeployed(forge.txs[k].kind, forge.base + k)
        BY <1>2, <2>1, AllSent
      <4>3. QED
        BY <4>1, <4>2
    <3>5. QED
      BY <3>3, <3>4
  <2>5. \A e \in Entries \ torn' :
            deployments[e] # 0 =>
                /\ IsDeployed(KindOf(e), deployments[e])
                /\ \A u \in chain[deployments[e]].uses : IsDeployed(u[1], u[2])
    BY <2>1, <2>4 DEF EntriesDeployed, WiredToDeployed, IInv
  <2>6. EntriesDeployed' /\ WiredToDeployed'
    BY <2>1, <2>5 DEF EntriesDeployed, WiredToDeployed, IsDeployed
  <2>7. QED
    BY <2>2, <2>3, <2>6 DEF IInv
<1>3. QED
  BY <1>1, <1>2

-----------------------------------------------------------------------------
LEMMA MainStep ==
  ASSUME IInv, main
  PROVE  IInv'
<1>1. PICK cmd \in Commands : tool' = [pc |-> "args", cmd |-> cmd, field |-> 1, asking |-> FALSE]
  BY DEF main
<1>2. runs' \in Nat /\ UNCHANGED <<chain, deployments, keyFile, newest, torn, args, forge>>
      /\ report' = [script |-> "none", outcome |-> "none"]
  BY DEF main, disk, IInv, TypeOK
<1>3. TypeOK'
  BY <1>1, <1>2 DEF IInv, TypeOK
<1>4. Control' /\ ~ForgeRuns'
  BY <1>1 DEF Control, ForgeRuns
<1>5. QED
  BY <1>2, <1>3, <1>4, OutsideForge

(* No step of a tool, of forge or of others who use the account breaks it.  *)
THEOREM NextIInv == IInv /\ [Next]_vars => IInv'
<1> SUFFICES ASSUME IInv, [Next]_vars PROVE IInv'
  OBVIOUS
<1>1. CASE main
  BY <1>1, MainStep
<1>2. CASE TakeArgument \/ Ask \/ Answer
  BY <1>2, ArgumentStep
<1>3. CASE generate_auth_key_pair \/ get_fee_key \/ SaveKey
  BY <1>3, KeyStep
<1>4. CASE Handler
  BY <1>4, HandlerStep
<1>5. CASE SimulateCreate
  BY <1>5, SimulateCreateStep
<1>6. CASE SimulateWrite
  BY <1>6, SimulateWriteStep
<1>7. CASE StartBroadcast
  BY <1>7, StartBroadcastStep
<1>8. CASE Broadcast
  BY <1>8, BroadcastStep
<1>9. CASE SimulateRevert \/ BroadcastRefused \/ ForgeFails
  BY <1>9, ExitStep DEF SimulateRevert, BroadcastRefused, ForgeFails, AtStep, ForgeRuns
<1>10. CASE BroadcastDone
  BY <1>10, BroadcastDoneStep
<1>11. CASE run_command \/ IOError \/ Killed
  BY <1>11, FinishStep DEF run_command, IOError, Killed
<1>12. CASE OtherTransaction
  BY <1>12, OtherTransactionStep
<1>13. CASE UNCHANGED vars
  <2>1. UNCHANGED <<chain, deployments, keyFile, newest, torn, tool, args, forge, report, runs>>
    BY <1>13 DEF vars, disk
  <2>2. QED
    BY <2>1 DEF IInv, ForgeInv, TypeOK, EntriesDeployed, WiredToDeployed, IsDeployed, Control,
                Collected, Wired, Written, SentInOrder, ForgeRuns, Done, Steps
<1>14. QED
  BY <1>1, <1>2, <1>3, <1>4, <1>5, <1>6, <1>7, <1>8, <1>9, <1>10, <1>11, <1>12, <1>13
     DEF Next, Program, Forge

-----------------------------------------------------------------------------
(* Keys.  A key that a run works with, or has put into a transaction, is in *)
(* its file or has been replaced there; only the script whose tool makes    *)
(* the key creates the proxy that is given it.                              *)

Kept(path, key) == keyFile[path] = key \/ newest[path] > key

KeyFilesOld == \A path \in KeyFiles : keyFile[path] <= newest[path]

NoKeyYet  == tool.pc = "idle" => args.key = 0
KeyToSave == tool.pc = "save_key" => args.key = newest[KeyPath]
KeySaved  == tool.pc \in {"args", "have_key"} /\ args.key # 0 => Kept(KeyPath, args.key)

ForgeKey ==
    ForgeRuns /\ forge.args.key # 0 =>
        \/ forge.script = "Deploy" /\ Kept(DECRYPTION_KEY_PATH, forge.args.key)
        \/ forge.script = "DeployGasSponsor" /\ Kept(GAS_SPONSOR_AUTH_KEY_PATH, forge.args.key)

KeyedTransactions ==
    ForgeRuns =>
        \A i \in 1..Len(forge.txs) :
            /\ forge.txs[i].kind \in Created(Steps)
            /\ forge.txs[i].key # 0 => forge.txs[i].key = forge.args.key

KeyInv == /\ KeyFilesOld /\ NoKeyYet /\ KeyToSave /\ KeySaved
          /\ ForgeKey /\ KeyedTransactions /\ KeysKept

(* No key exists at first.                                                  *)
THEOREM InitKeyInv == Init => KeyInv
<1> SUFFICES ASSUME Init PROVE KeyInv
  OBVIOUS
<1>1. tool.pc = "idle" /\ args.key = 0
  BY DEF Init, NoTool, NoArgs
<1>2. chain = << >> /\ keyFile = [f \in KeyFiles |-> 0] /\ newest = [f \in KeyFiles |-> 0]
  BY DEF Init
<1>3. KeyFilesOld /\ KeysKept
  BY <1>2 DEF KeyFilesOld, KeysKept
<1>4. QED
  BY <1>1, <1>3 DEF KeyInv, NoKeyYet, KeyToSave, KeySaved, ForgeKey, KeyedTransactions,
                    ForgeRuns

(* The steps that touch neither the keys nor what is on the chain.          *)
LEMMA KeysUntouched ==
  ASSUME KeyInv, UNCHANGED <<chain, keyFile, newest>>,
         NoKeyYet', KeyToSave', KeySaved', ForgeKey', KeyedTransactions'
  PROVE  KeyInv'
<1>1. KeyFilesOld'
  BY DEF KeyInv, KeyFilesOld
<1>2. KeysKept'
  BY DEF KeyInv, KeysKept
<1>3. QED
  BY <1>1, <1>2 DEF KeyInv

LEMMA FinishKeeps ==
  ASSUME KeyInv, NEW outcome, Finish(outcome)
  PROVE  KeyInv'
<1>1. tool'.pc = "idle" /\ args'.key = 0 /\ UNCHANGED <<chain, keyFile, newest>>
  BY DEF Finish, NoTool, NoArgs, disk
<1>2. QED
  BY <1>1, KeysUntouched
     DEF NoKeyYet, KeyToSave, KeySaved, ForgeKey, KeyedTransactions, ForgeRuns

LEMMA ArgumentKeeps ==
  ASSUME IInv, KeyInv, TakeArgument \/ Ask \/ Answer
  PROVE  KeyInv'
<1>1. /\ tool.pc = "args" /\ tool'.pc = "args" /\ tool'.cmd = tool.cmd
      /\ args'.key = args.key /\ UNCHANGED <<chain, keyFile, newest>>
  <2>1. CASE Ask
    BY <2>1 DEF Ask, AtField, disk, IInv, TypeOK
  <2>2. ASSUME NEW v, tool.pc = "args", Obtain(v)
        PROVE  <1>1
    BY <2>2 DEF Obtain, disk, IInv, TypeOK, Args
  <2>3. QED
    BY <2>1, <2>2 DEF TakeArgument, Answer, prompt_for_eth_address, prompt_for_f64,
                      prompt_for_u8, prompt_for_input, AtField
<1>2. NoKeyYet' /\ KeyToSave' /\ ForgeKey' /\ KeyedTransactions'
  BY <1>1 DEF NoKeyYet, KeyToSave, ForgeKey, KeyedTransactions, ForgeRuns
<1>3. KeySaved'
  BY <1>1 DEF KeySaved, Kept, KeyPath, KeyInv
<1>4. QED
  BY <1>1, <1>2, <1>3, KeysUntouched

(* A new key empties its file: the ones before are replaced.                *)
LEMMA GenerateKeeps ==
  ASSUME IInv, KeyInv, NEW path \in KeyFiles, path = KeyPath, GenerateKey(path)
  PROVE  KeyInv'
<1>1. /\ newest \in [KeyFiles -> Nat] /\ keyFile \in [KeyFiles -> Nat]
      /\ newest' = [newest EXCEPT ![path] = newest[path] + 1]
      /\ keyFile' = [keyFile EXCEPT ![path] = 0]
      /\ tool'.pc = "save_key" /\ tool'.cmd = tool.cmd
      /\ args'.key = newest'[path]
      /\ UNCHANGED chain
  BY DEF GenerateKey, IInv, TypeOK, Args
<1>2. KeyFilesOld'
  BY <1>1 DEF KeyFilesOld, KeyInv
<1>3. KeysKept'
  <2> SUFFICES ASSUME NEW n \in DOMAIN chain, NEW p \in KeyFiles,
                      chain[n].kind = KeyUser(p), chain[n].key # 0
               PROVE  keyFile'[p] = chain[n].key \/ newest'[p] > chain[n].key
    BY <1>1 DEF KeysKept
  <2>1. keyFile[p] = chain[n].key \/ newest[p] > chain[n].key
    BY DEF KeyInv, KeysKept
  <2>2. chain[n].key \in Nat
    <3>1. chain[n] \in Transactions
      BY DEF IInv, TypeOK
    <3>2. QED
      BY <3>1 DEF Transactions
  <2>3. keyFile[p] <= newest[p]
    BY DEF KeyInv, KeyFilesOld
  <2>4. QED
    BY <2>1, <2>2, <2>3, <1>1
<1>4. KeyPath' = path
  BY <1>1 DEF KeyPath
<1>5. KeyToSave'
  BY <1>1, <1>4 DEF KeyToSave
<1>6. NoKeyYet' /\ KeySaved' /\ ForgeKey' /\ KeyedTransactions'
  BY <1>1 DEF NoKeyYet, KeySaved, ForgeKey, KeyedTransactions, ForgeRuns
<1>7. QED
  BY <1>2, <1>3, <1>5, <1>6 DEF KeyInv

LEMMA SaveKeeps ==
  ASSUME IInv, KeyInv, SaveKey
  PROVE  KeyInv'
<1>1. /\ newest \in [KeyFiles -> Nat] /\ keyFile \in [KeyFiles -> Nat]
      /\ KeyPath \in KeyFiles /\ args.key = newest[KeyPath]
      /\ keyFile' = [keyFile EXCEPT ![KeyPath] = args.key]
      /\ UNCHANGED <<newest, args, chain>>
  BY DEF SaveKey, SavedKey, KeyInv, KeyToSave, KeyPath, KeyFiles, IInv, TypeOK
<1>2. tool'.pc \in {"args", "have_key"} /\ tool'.cmd = tool.cmd
  <2>1. CASE tool.cmd = "deploy-darkpool"
    BY <2>1 DEF SaveKey, IInv, TypeOK
  <2>2. CASE tool.cmd # "deploy-darkpool"
    BY <2>2 DEF SaveKey, IInv, TypeOK
  <2>3. QED
    BY <2>1, <2>2
<1>3. KeyPath' = KeyPath
  BY <1>2 DEF KeyPath
<1>4. KeyFilesOld'
  BY <1>1 DEF KeyFilesOld, KeyInv
<1>5. KeysKept'
  <2> SUFFICES ASSUME NEW n \in DOMAIN chain, NEW p \in KeyFiles,
                      chain[n].kind = KeyUser(p), chain[n].key # 0
               PROVE  keyFile'[p] = chain[n].key \/ newest[p] > chain[n].key
    BY <1>1 DEF KeysKept
  <2>1. keyFile[p] = chain[n].key \/ newest[p] > chain[n].key
    BY DEF KeyInv, KeysKept
  <2>2. chain[n].key \in Nat
    <3>1. chain[n] \in Transactions
      BY DEF IInv, TypeOK
    <3>2. QED
      BY <3>1 DEF Transactions
  <2>3. keyFile[p] <= newest[p]
    BY DEF KeyInv, KeyFilesOld
  <2>4. QED
    BY <2>1, <2>2, <2>3, <1>1
<1>6. KeySaved'
  BY <1>1, <1>3 DEF KeySaved, Kept
<1>7. NoKeyYet' /\ KeyToSave' /\ ForgeKey' /\ KeyedTransactions'
  BY <1>2 DEF NoKeyYet, KeyToSave, ForgeKey, KeyedTransactions, ForgeRuns
<1>8. QED
  BY <1>4, <1>5, <1>6, <1>7 DEF KeyInv

LEMMA KeyKeeps ==
  ASSUME IInv, KeyInv, generate_auth_key_pair \/ get_fee_key \/ SaveKey
  PROVE  KeyInv'
<1>1. CASE generate_auth_key_pair
  <2>1. tool.cmd # "deploy-darkpool"
    <3>1. \A i \in DOMAIN prompt_for_darkpool_args : prompt_for_darkpool_args[i] # "auth_address"
      BY DEF prompt_for_darkpool_args
    <3>2. QED
      BY <3>1, <1>1 DEF generate_auth_key_pair, AtField, Fields
  <2>2. QED
    BY <1>1, <2>1, GenerateKeeps DEF generate_auth_key_pair, KeyPath, KeyFiles
<1>2. CASE generate_fee_encryption_key
  BY <1>2, GenerateKeeps DEF generate_fee_encryption_key, NeedsFeeKey, KeyPath, KeyFiles
<1>3. CASE derive_fee_encryption_key
  <2>1. /\ tool.pc = "args" /\ tool'.pc = "have_key" /\ tool'.cmd = tool.cmd
        /\ UNCHANGED <<chain, keyFile, newest, args>>
    BY <1>3 DEF derive_fee_encryption_key, NeedsFeeKey, AllFields, disk, IInv, TypeOK
  <2>2. NoKeyYet' /\ KeyToSave' /\ ForgeKey' /\ KeyedTransactions'
    BY <2>1 DEF NoKeyYet, KeyToSave, ForgeKey, KeyedTransactions, ForgeRuns
  <2>3. KeySaved'
    BY <2>1 DEF KeySaved, Kept, KeyPath, KeyInv
  <2>4. QED
    BY <2>1, <2>2, <2>3, KeysUntouched
<1>4. QED
  BY <1>1, <1>2, <1>3, SaveKeeps DEF get_fee_key

(* Forge is given a key that is kept.                                       *)
LEMMA HandlerKeeps ==
  ASSUME IInv, KeyInv, Handler
  PROVE  KeyInv'
<1>1. ASSUME NEW script, NEW a, forge_script(script, a),
             \/ a.key = 0
             \/ script = "Deploy" /\ Kept(DECRYPTION_KEY_PATH, a.key)
             \/ script = "DeployGasSponsor" /\ Kept(GAS_SPONSOR_AUTH_KEY_PATH, a.key)
      PROVE  KeyInv'
  <2>1. /\ forge'.script = script /\ forge'.args = a /\ forge'.txs = << >>
        /\ tool'.pc = "simulate" /\ UNCHANGED <<chain, keyFile, newest>>
    BY <1>1 DEF forge_script, NoForge, disk, IInv, TypeOK
  <2>2. NoKeyYet' /\ KeyToSave' /\ KeySaved' /\ KeyedTransactions'
    BY <2>1 DEF NoKeyYet, KeyToSave, KeySaved, KeyedTransactions
  <2>3. ForgeKey'
    BY <2>1, <1>1 DEF ForgeKey, Kept
  <2>4. QED
    BY <2>1, <2>2, <2>3, KeysUntouched
<1>2. CASE deploy_darkpool
  <2>1. args.key = 0 \/ Kept(DECRYPTION_KEY_PATH, args.key)
    BY <1>2 DEF deploy_darkpool, KeyInv, KeySaved, KeyPath, IInv, ForgeInv, Control
  <2>2. QED
    BY <1>1, <1>2, <2>1 DEF deploy_darkpool
<1>3. CASE deploy_gas_sponsor
  <2>1. args.key = 0 \/ Kept(GAS_SPONSOR_AUTH_KEY_PATH, args.key)
    BY <1>3 DEF deploy_gas_sponsor, AllFields, KeyInv, KeySaved, KeyPath
  <2>2. QED
    BY <1>1, <1>3, <2>1 DEF deploy_gas_sponsor
<1>4. NoArgs.key = 0
  BY DEF NoArgs
<1>5. QED
  BY <1>1, <1>2, <1>3, <1>4
     DEF Handler, deploy_malleable_match_connector, deploy_darkpool_implementation,
         deploy_gas_sponsor_implementation,
         deploy_malleable_match_connector_implementation, deploy_erc20, deploy_weth

LEMMA SimulateKeeps ==
  ASSUME IInv, KeyInv, SimulateCreate \/ SimulateWrite \/ StartBroadcast
  PROVE  KeyInv'
<1>1. CASE SimulateCreate
  <2> DEFINE tx == Transaction(Steps[forge.step].name)
  <2>1. /\ tool.pc = "simulate" /\ forge.step \in DOMAIN Steps
        /\ Steps[forge.step].op = "create"
        /\ forge'.txs = Append(forge.txs, tx) /\ forge'.args = forge.args
        /\ forge'.script = forge.script
        /\ UNCHANGED <<chain, keyFile, newest, tool, args>>
    BY <1>1 DEF SimulateCreate, AtStep, disk, IInv, TypeOK
  <2>2. /\ forge.txs \in Seq(Transactions) /\ tx.kind = Steps[forge.step].name
        /\ tx.key # 0 => tx.key = forge.args.key
    BY DEF Transaction, IInv, TypeOK
  <2>3. tx.kind \in Created(Steps)
    <3>1. /\ Steps \in Seq(ScriptSteps) /\ forge.step \in 1..Len(Steps)
          /\ Steps[forge.step].name \in Kinds
      BY <2>1, StepsOrdered DEF InOrder
    <3>2. Steps[forge.step] = create(Steps[forge.step].name)
      <4>1. \A r \in ScriptSteps : r = [op |-> r.op, name |-> r.name]
        BY DEF ScriptSteps
      <4>2. Steps[forge.step] \in ScriptSteps
        BY <3>1
      <4>3. QED
        BY <2>1, <4>1, <4>2 DEF create
    <3>3. QED
      BY <2>2, <3>1, <3>2 DEF Created
  <2>4. Steps' = Steps
    BY <2>1 DEF Steps
  <2> HIDE DEF tx
  <2>5. KeyedTransactions'
    <3> SUFFICES ASSUME NEW i \in 1..Len(forge'.txs)
                 PROVE  /\ forge'.txs[i].kind \in Created(Steps)
                        /\ forge'.txs[i].key # 0 => forge'.txs[i].key = forge.args.key
      BY <2>1, <2>4 DEF KeyedTransactions
    <3>1. \/ i \in 1..Len(forge.txs) /\ forge'.txs[i] = forge.txs[i]
          \/ forge'.txs[i] = tx
      BY <2>1, <2>2
    <3>2. QED
      BY <3>1, <2>1, <2>2, <2>3 DEF KeyInv, KeyedTransactions, ForgeRuns
  <2>6. NoKeyYet' /\ KeyToSave' /\ KeySaved'
    BY <2>1 DEF NoKeyYet, KeyToSave, KeySaved
  <2>7. ForgeKey'
    BY <2>1 DEF ForgeKey, Kept, ForgeRuns, KeyInv
  <2>8. QED
    BY <2>1, <2>5, <2>6, <2>7, KeysUntouched
<1>2. CASE SimulateWrite \/ StartBroadcast
  <2>1. /\ tool.pc = "simulate" /\ tool'.pc \in {"simulate", "broadcast"}
        /\ forge'.txs = forge.txs /\ forge'.args = forge.args /\ forge'.script = forge.script
        /\ UNCHANGED <<chain, keyFile, newest, args>>
    BY <1>2 DEF SimulateWrite, StartBroadcast, AtStep, disk, IInv, TypeOK
  <2>2. NoKeyYet' /\ KeyToSave' /\ KeySaved'
    BY <2>1 DEF NoKeyYet, KeyToSave, KeySaved
  <2>3. ForgeKey' /\ KeyedTransactions'
    BY <2>1 DEF ForgeKey, KeyedTransactions, Kept, Steps, ForgeRuns, KeyInv
  <2>4. QED
    BY <2>1, <2>2, <2>3, KeysUntouched
<1>3. QED
  BY <1>1, <1>2

LEMMA ExitKeeps ==
  ASSUME IInv, KeyInv, NEW status, ForgeExits(status)
  PROVE  KeyInv'
<1>1. tool'.pc = "exited" /\ UNCHANGED <<chain, keyFile, newest>>
  BY DEF ForgeExits, IInv, TypeOK
<1>2. QED
  BY <1>1, KeysUntouched
     DEF NoKeyYet, KeyToSave, KeySaved, ForgeKey, KeyedTransactions, ForgeRuns

(* What goes on the chain has a kept key, if it has one.                    *)
LEMMA ChainKeeps ==
  ASSUME IInv, KeyInv, Broadcast \/ OtherTransaction
  PROVE  KeyInv'
<1>1. /\ ForgeRuns /\ UNCHANGED <<keyFile, newest, tool, args>>
      /\ forge'.txs = forge.txs /\ forge'.args = forge.args /\ forge'.script = forge.script
  BY DEF Broadcast, OtherTransaction, ForgeRuns, disk, IInv, TypeOK
<1>2. PICK tx \in Transactions :
          /\ chain' = Append(chain, tx)
          /\ \/ tx.key = 0
             \/ \E i \in 1..Len(forge.txs) : tx = forge.txs[i]
  <2>1. CASE OtherTransaction
    BY <2>1 DEF OtherTransaction, Other, Transactions
  <2>2. CASE Broadcast
    <3>1. forge.sent + 1 \in 1..Len(forge.txs) /\ forge.txs[forge.sent + 1] \in Transactions
      BY <2>2 DEF Broadcast, IInv, TypeOK
    <3>2. Failed \in Transactions /\ Failed.key = 0
      BY DEF Failed, Transactions
    <3>3. QED
      BY <2>2, <3>1, <3>2 DEF Broadcast, Mine
  <2>3. QED
    BY <2>1, <2>2
<1>3. ASSUME NEW path \in KeyFiles, tx.kind = KeyUser(path), tx.key # 0
      PROVE  Kept(path, tx.key)
  <2>1. tx.kind \in Created(Steps) /\ tx.key = forge.args.key
    BY <1>1, <1>2, <1>3 DEF KeyInv, KeyedTransactions
  <2>2. CASE forge.script = "Deploy"
    <3>1. path = DECRYPTION_KEY_PATH
      BY <1>3, <2>1, <2>2, KeyedProxies DEF KeyUser, KeyFiles, Steps
    <3>2. QED
      BY <1>1, <1>3, <2>1, <2>2, <3>1 DEF KeyInv, ForgeKey
  <2>3. CASE forge.script = "DeployGasSponsor"
    <3>1. path = GAS_SPONSOR_AUTH_KEY_PATH
      BY <1>3, <2>1, <2>3, KeyedProxies DEF KeyUser, KeyFiles, Steps
    <3>2. QED
      BY <1>1, <1>3, <2>1, <2>3, <3>1 DEF KeyInv, ForgeKey
  <2>4. QED
    BY <1>1, <1>3, <2>1, <2>2, <2>3 DEF KeyInv, ForgeKey
<1>4. KeysKept'
  <2> SUFFICES ASSUME NEW n \in DOMAIN chain', NEW p \in KeyFiles,
                      chain'[n].kind = KeyUser(p), chain'[n].key # 0
               PROVE  Kept(p, chain'[n].key)
    BY <1>1 DEF KeysKept, Kept
  <2>1. \/ n \in DOMAIN chain /\ chain'[n] = chain[n]
        \/ chain'[n] = tx
    BY <1>2 DEF IInv, TypeOK
  <2>2. QED
    BY <2>1, <1>3 DEF KeyInv, KeysKept, Kept
<1>5. KeyFilesOld' /\ NoKeyYet' /\ KeyToSave' /\ KeySaved'
  BY <1>1 DEF KeyInv, KeyFilesOld, NoKeyYet, KeyToSave, KeySaved, Kept, KeyPath
<1>6. ForgeKey' /\ KeyedTransactions'
  BY <1>1 DEF KeyInv, ForgeKey, KeyedTransactions, ForgeRuns, Kept, Steps
<1>7. QED
  BY <1>4, <1>5, <1>6 DEF KeyInv

(* Every step keeps the keys that are in use.                               *)
THEOREM NextKeyInv == IInv /\ KeyInv /\ [Next]_vars => KeyInv'
<1> SUFFICES ASSUME IInv, KeyInv, [Next]_vars PROVE KeyInv'
  OBVIOUS
<1>1. CASE main
  <2>1. /\ tool.pc = "idle" /\ tool'.pc = "args"
        /\ UNCHANGED <<chain, keyFile, newest, args>>
    BY <1>1 DEF main, disk
  <2>2. QED
    BY <2>1, KeysUntouched
       DEF KeyInv, NoKeyYet, KeyToSave, KeySaved, ForgeKey, KeyedTransactions, ForgeRuns
<1>2. CASE TakeArgument \/ Ask \/ Answer
  BY <1>2, ArgumentKeeps
<1>3. CASE generate_auth_key_pair \/ get_fee_key \/ SaveKey
  BY <1>3, KeyKeeps
<1>4. CASE Handler
  BY <1>4, HandlerKeeps
<1>5. CASE SimulateCreate \/ SimulateWrite \/ StartBroadcast
  BY <1>5, SimulateKeeps
<1>6. CASE SimulateRevert \/ BroadcastRefused \/ BroadcastDone \/ ForgeFails
  BY <1>6, ExitKeeps DEF SimulateRevert, BroadcastRefused, BroadcastDone, ForgeFails
<1>7. CASE Broadcast \/ OtherTransaction
  BY <1>7, ChainKeeps
<1>8. CASE run_command \/ IOError \/ Killed
  BY <1>8, FinishKeeps DEF run_command, IOError, Killed
<1>9. CASE UNCHANGED vars
  <2>1. UNCHANGED <<chain, keyFile, newest, tool, args, forge>>
    BY <1>9 DEF vars, disk
  <2>2. QED
    BY <2>1 DEF KeyInv, KeyFilesOld, NoKeyYet, KeyToSave, KeySaved, ForgeKey,
                KeyedTransactions, KeysKept, ForgeRuns, Kept, KeyPath, Steps
<1>10. QED
  BY <1>1, <1>2, <1>3, <1>4, <1>5, <1>6, <1>7, <1>8, <1>9 DEF Next, Program, Forge

-----------------------------------------------------------------------------
(* Upgrades.  A script creates each contract once, and a script that        *)
(* creates a proxy puts the proxy and its implementation on file.  Before   *)
(* anything of a run is sent, only others add to the chain; so the file     *)
(* never names an older contract than a proxy on the chain was given.       *)

CreatesOnce(s) ==
    \A i, j \in 1..Len(s) : \A kind : s[i] = create(kind) /\ s[j] = create(kind) => i = j

Listed(s) == {e \in Entries : \E j \in 1..Len(s) : s[j] = writeDeployment(e)}

(* A part of a script, with the contracts it creates and entries it writes. *)
Part(s, kinds, entries) ==
    /\ s \in Seq(ScriptSteps) /\ Created(s) = kinds /\ entries \subseteq Listed(s)
    /\ CreatesOnce(s)
    /\ \A j \in 1..Len(s) : \A kind : s[j] = create(kind) => kind \in Kinds

LEMMA PartsConcat ==
  ASSUME NEW s, NEW t, NEW kinds, NEW more, NEW entries, NEW others,
         Part(s, kinds, entries), Part(t, more, others), kinds \cap more = {}
  PROVE  Part(s \o t, kinds \cup more, entries \cup others)
<1> USE DEF Part
<1>1. /\ Len(s \o t) = Len(s) + Len(t)
      /\ \A k \in 1..Len(s) : (s \o t)[k] = s[k]
      /\ \A k \in 1..Len(t) : (s \o t)[Len(s) + k] = t[k]
      /\ Len(s) \in Nat /\ Len(t) \in Nat
  OBVIOUS
<1>2. ASSUME NEW k \in 1..Len(s \o t), ~(k \in 1..Len(s))
      PROVE  k - Len(s) \in 1..Len(t) /\ (s \o t)[k] = t[k - Len(s)]
  <2>1. k - Len(s) \in 1..Len(t) /\ Len(s) + (k - Len(s)) = k
    BY <1>1, <1>2
  <2>2. QED
    BY <2>1, <1>1
<1>3. ASSUME NEW i \in 1..Len(s \o t), NEW j \in 1..Len(s \o t), NEW kind,
             (s \o t)[i] = create(kind), (s \o t)[j] = create(kind)
      PROVE  i = j
  <2>1. CASE i \in 1..Len(s) /\ j \in 1..Len(s)
    BY <1>1, <1>3, <2>1 DEF CreatesOnce
  <2>2. CASE ~(i \in 1..Len(s)) /\ ~(j \in 1..Len(s))
    <3>1. i - Len(s) = j - Len(s)
      BY <1>2, <1>3, <2>2 DEF CreatesOnce
    <3>2. QED
      BY <3>1, <1>1
  <2>3. CASE i \in 1..Len(s) /\ ~(j \in 1..Len(s))
    <3>1. s[i] = create(kind) /\ j - Len(s) \in 1..Len(t) /\ t[j - Len(s)] = create(kind)
      BY <1>1, <1>2, <1>3, <2>3
    <3>2. kind \in Created(s) /\ kind \in Created(t)
      BY <2>3, <3>1 DEF Created
    <3>3. QED
      BY <3>2 DEF Created
  <2>4. CASE ~(i \in 1..Len(s)) /\ j \in 1..Len(s)
    <3>1. s[j] = create(kind) /\ i - Len(s) \in 1..Len(t) /\ t[i - Len(s)] = create(kind)
      BY <1>1, <1>2, <1>3, <2>4
    <3>2. kind \in Created(s) /\ kind \in Created(t)
      BY <2>4, <3>1 DEF Created
    <3>3. QED
      BY <3>2 DEF Created
  <2>5. QED
    BY <2>1, <2>2, <2>3, <2>4
<1>4. ASSUME NEW i \in 1..Len(s \o t), NEW kind, (s \o t)[i] = create(kind)
      PROVE  kind \in Kinds
  BY <1>1, <1>2, <1>4
<1>5. ASSUME NEW e \in Listed(s)
      PROVE  e \in Listed(s \o t)
  BY <1>1 DEF Listed
<1>6. ASSUME NEW e \in Listed(t)
      PROVE  e \in Listed(s \o t)
  <2>1. PICK j \in 1..Len(t) : t[j] = writeDeployment(e)
    BY DEF Listed
  <2>2. Len(s) + j \in 1..Len(s \o t) /\ (s \o t)[Len(s) + j] = writeDeployment(e)
    BY <2>1, <1>1
  <2>3. QED
    BY <2>2 DEF Listed
<1>7. s \o t \in Seq(ScriptSteps) /\ Created(s \o t) = kinds \cup more
  BY CreatedConcat
<1>8. QED
  BY <1>3, <1>4, <1>5, <1>6, <1>7 DEF CreatesOnce

LEMMA PartsOfScripts ==
  /\ Part(deployHasher, {"Hasher"}, {})
  /\ Part(deployVKeysAndVerifier, {"VKeys", "Verifier"}, {})
  /\ Part(deployTransferExecutor, {"TransferExecutor"}, {})
  /\ Part(deployDarkpoolImplementation, {"Darkpool"}, {})
  /\ Part(deployGasSponsorImplementation, {"GasSponsor"}, {"GasSponsor"})
  /\ Part(deployMalleableMatchConnectorImplementation,
          {"MalleableMatchConnector"}, {"MalleableMatchConnector"})
  /\ Part(DeployDummyERC20, {"MockERC20", "mint"}, {})
  /\ Part(DeployWethMock, {"WethMock"}, {})
<1> USE DEF Part, ScriptSteps, create, writeDeployment, Created, Listed, CreatesOnce, Kinds,
            Entries, Admins
<1>1. Part(deployHasher, {"Hasher"}, {})
  BY DEF deployHasher
<1>2. Part(deployVKeysAndVerifier, {"VKeys", "Verifier"}, {})
  BY DEF deployVKeysAndVerifier
<1>3. Part(deployTransferExecutor, {"TransferExecutor"}, {})
  BY DEF deployTransferExecutor
<1>4. Part(deployDarkpoolImplementation, {"Darkpool"}, {})
  BY DEF deployDarkpoolImplementation
<1>5. Part(deployGasSponsorImplementation, {"GasSponsor"}, {"GasSponsor"})
  BY DEF deployGasSponsorImplementation
<1>6. Part(deployMalleableMatchConnectorImplementation,
           {"MalleableMatchConnector"}, {"MalleableMatchConnector"})
  BY DEF deployMalleableMatchConnectorImplementation
<1>7. Part(DeployDummyERC20, {"MockERC20", "mint"}, {})
  BY DEF DeployDummyERC20
<1>8. Part(DeployWethMock, {"WethMock"}, {})
  BY DEF DeployWethMock
<1>9. QED
  BY <1>1, <1>2, <1>3, <1>4, <1>5, <1>6, <1>7, <1>8

LEMMA PartsOfCore ==
  Part(deployCore,
       {"Hasher", "VKeys", "Verifier", "TransferExecutor", "Darkpool", "DarkpoolProxy"},
       {"Darkpool", "DarkpoolProxy"})
<1> DEFINE rest == <<create("Darkpool"), create("DarkpoolProxy"),
                     writeDeployment("Darkpool"), writeDeployment("DarkpoolProxy"),
                     writeDeployment("ProxyAdmin")>>
           one   == deployHasher \o deployVKeysAndVerifier
           two   == one \o deployTransferExecutor
           three == two \o rest
<1>1. Part(rest, {"Darkpool", "DarkpoolProxy"}, {"Darkpool", "DarkpoolProxy"})
  BY DEF Part, ScriptSteps, create, writeDeployment, Created, Listed, CreatesOnce, Kinds,
         Entries, Admins
<1> HIDE DEF rest
<1>2. Part(one, {"Hasher"} \cup {"VKeys", "Verifier"}, {} \cup {})
  BY PartsOfScripts, PartsConcat
<1> HIDE DEF one
<1>3. Part(two, ({"Hasher"} \cup {"VKeys", "Verifier"}) \cup {"TransferExecutor"},
           ({} \cup {}) \cup {})
  BY <1>2, PartsOfScripts, PartsConcat
<1> HIDE DEF two
<1>4. Part(three, (({"Hasher"} \cup {"VKeys", "Verifier"}) \cup {"TransferExecutor"})
                     \cup {"Darkpool", "DarkpoolProxy"},
           (({} \cup {}) \cup {}) \cup {"Darkpool", "DarkpoolProxy"})
  BY <1>1, <1>3, PartsConcat
<1>5. deployCore = three
  BY DEF deployCore, rest, one, two
<1> HIDE DEF three
<1>6. (({"Hasher"} \cup {"VKeys", "Verifier"}) \cup {"TransferExecutor"})
          \cup {"Darkpool", "DarkpoolProxy"}
        = {"Hasher", "VKeys", "Verifier", "TransferExecutor", "Darkpool", "DarkpoolProxy"}
  OBVIOUS
<1>7. (({} \cup {}) \cup {}) \cup {"Darkpool", "DarkpoolProxy"} = {"Darkpool", "DarkpoolProxy"}
  OBVIOUS
<1>8. QED
  BY <1>4, <1>5, <1>6, <1>7

LEMMA PartsOfOthers ==
  /\ Part(deployGasSponsor, {"GasSponsor", "GasSponsorProxy"}, {"GasSponsor", "GasSponsorProxy"})
  /\ Part(deployMalleableMatchConnector,
          {"MalleableMatchConnector", "MalleableMatchConnectorProxy"},
          {"MalleableMatchConnector", "MalleableMatchConnectorProxy"})
<1> DEFINE sponsor   == <<create("GasSponsorProxy"), writeDeployment("GasSponsorProxy"),
                          writeDeployment("GasSponsorProxyAdmin")>>
           connector == <<create("MalleableMatchConnectorProxy"),
                          writeDeployment("MalleableMatchConnectorProxy"),
                          writeDeployment("MalleableMatchConnectorProxyAdmin")>>
<1>1. /\ Part(sponsor, {"GasSponsorProxy"}, {"GasSponsorProxy"})
      /\ Part(connector, {"MalleableMatchConnectorProxy"}, {"MalleableMatchConnectorProxy"})
  BY DEF Part, ScriptSteps, create, writeDeployment, Created, Listed, CreatesOnce, Kinds,
         Entries, Admins
<1> HIDE DEF sponsor, connector
<1>2. Part(deployGasSponsorImplementation \o sponsor, {"GasSponsor"} \cup {"GasSponsorProxy"},
           {"GasSponsor"} \cup {"GasSponsorProxy"})
  BY <1>1, PartsOfScripts, PartsConcat
<1>3. Part(deployMalleableMatchConnectorImplementation \o connector,
           {"MalleableMatchConnector"} \cup {"MalleableMatchConnectorProxy"},
           {"MalleableMatchConnector"} \cup {"MalleableMatchConnectorProxy"})
  BY <1>1, PartsOfScripts, PartsConcat
<1>4. \A a, b : {a} \cup {b} = {a, b}
  OBVIOUS
<1>5. QED
  BY <1>2, <1>3, <1>4 DEF deployGasSponsor, deployMalleableMatchConnector, sponsor, connector

LEMMA ScriptsListProxies ==
  ASSUME NEW name \in ScriptNames
  PROVE  /\ CreatesOnce(Script(name))
         /\ \A p \in Proxies : p \in Created(Script(name)) =>
                p \in Listed(Script(name)) /\ Implementation(p) \in Listed(Script(name))
<1>1. ASSUME NEW s, NEW kinds, NEW entries, Part(s, kinds, entries), s = Script(name),
             \A p \in Proxies : p \in kinds => p \in entries /\ Implementation(p) \in entries
      PROVE  /\ CreatesOnce(Script(name))
             /\ \A p \in Proxies : p \in Created(Script(name)) =>
                    p \in Listed(Script(name)) /\ Implementation(p) \in Listed(Script(name))
  BY <1>1 DEF Part
<1>2. CASE name = "Deploy"
  BY <1>1, <1>2, PartsOfCore DEF Script, Proxies, Implementation
<1>3. CASE name \in {"DeployGasSponsor", "DeployMalleableMatchConnector"}
  BY <1>1, <1>3, PartsOfOthers DEF Script, Proxies, Implementation
<1>4. CASE name \in {"DeployDarkpoolImplementation", "DeployGasSponsorImplementation",
                     "DeployMalleableMatchConnectorImplementation", "DeployDummyERC20",
                     "DeployWethMock"}
  BY <1>1, <1>4, PartsOfScripts DEF Script, Proxies, Implementation
<1>5. QED
  BY <1>2, <1>3, <1>4 DEF ScriptNames

(* The inductive invariant.                                                 *)
Sourced ==
    ForgeRuns =>
        \A i \in 1..Len(forge.txs) :
            \E j \in 1..Len(Steps) : Steps[j] = create(forge.txs[i].kind) /\ Done(j)

Once ==
    ForgeRuns =>
        \A i, k \in 1..Len(forge.txs) : forge.txs[i].kind = forge.txs[k].kind => i = k

UsesEarlier ==
    ForgeRuns =>
        \A i \in 1..Len(forge.txs) : \A u \in forge.txs[i].uses : u[2] <= forge.base + i

OnlyOthers ==
    tool.pc = "simulate" =>
        \A n \in 1..Len(chain) : n > forge.base => chain[n] = Other

ChainUsesEarlier == \A n \in 1..Len(chain) : \A u \in chain[n].uses : u[2] <= n

RunInv == Sourced /\ Once /\ UsesEarlier /\ OnlyOthers

UpgradeInv == RunInv /\ ChainUsesEarlier /\ UpgradesForward

(* Nothing is created at first.                                             *)
THEOREM InitUpgradeInv == Init => UpgradeInv
<1> SUFFICES ASSUME Init PROVE UpgradeInv
  OBVIOUS
<1>1. tool.pc = "idle" /\ chain = << >> /\ \A p \in Proxies : deployments[p] = 0
  BY DEF Init, NoTool, Proxies, Entries, Kinds
<1>2. QED
  BY <1>1 DEF UpgradeInv, RunInv, Sourced, Once, UsesEarlier, OnlyOthers, ChainUsesEarlier,
              UpgradesForward, ForgeRuns

(* The steps that touch neither the file nor the chain.                     *)
LEMMA FileUntouched ==
  ASSUME UpgradeInv, UNCHANGED <<chain, deployments>>, RunInv'
  PROVE  UpgradeInv'
  BY DEF UpgradeInv, ChainUsesEarlier, UpgradesForward, IsDeployed

LEMMA NoForgeRuns ==
  ASSUME ~ForgeRuns'
  PROVE  RunInv'
  BY DEF RunInv, Sourced, Once, UsesEarlier, OnlyOthers, ForgeRuns

LEMMA OutsideUpgrades ==
  ASSUME IInv, UpgradeInv,
         \/ main \/ TakeArgument \/ Ask \/ Answer \/ run_command \/ IOError \/ Killed
         \/ generate_auth_key_pair \/ get_fee_key \/ SaveKey
         \/ SimulateRevert \/ BroadcastRefused \/ BroadcastDone \/ ForgeFails
  PROVE  UpgradeInv'
<1>1. CASE main
  BY <1>1, FileUntouched, NoForgeRuns DEF main, disk, ForgeRuns
<1>2. CASE TakeArgument \/ Ask \/ Answer
  <2>1. tool'.pc = "args" /\ UNCHANGED <<chain, deployments>>
    BY <1>2 DEF TakeArgument, Ask, Answer, prompt_for_eth_address, prompt_for_f64,
                prompt_for_u8, prompt_for_input, AtField, Obtain, disk, IInv, TypeOK
  <2>2. QED
    BY <2>1, FileUntouched, NoForgeRuns DEF ForgeRuns
<1>3. CASE run_command \/ IOError \/ Killed
  <2>1. tool'.pc = "idle" /\ UNCHANGED <<chain, deployments>>
    BY <1>3 DEF run_command, IOError, Killed, Finish, NoTool, disk
  <2>2. QED
    BY <2>1, FileUntouched, NoForgeRuns DEF ForgeRuns
<1>4. CASE generate_auth_key_pair \/ get_fee_key
  <2>1. tool'.pc \in {"save_key", "have_key"} /\ UNCHANGED <<chain, deployments>>
    BY <1>4 DEF generate_auth_key_pair, get_fee_key, generate_fee_encryption_key,
                derive_fee_encryption_key, GenerateKey, disk, IInv, TypeOK
  <2>2. QED
    BY <2>1, FileUntouched, NoForgeRuns DEF ForgeRuns
<1>5. CASE SaveKey
  <2>1. tool'.pc \in {"args", "have_key"} /\ UNCHANGED <<chain, deployments>>
    <3>1. CASE tool.cmd = "deploy-darkpool"
      BY <1>5, <3>1 DEF SaveKey, IInv, TypeOK
    <3>2. CASE tool.cmd # "deploy-darkpool"
      BY <1>5, <3>2 DEF SaveKey, IInv, TypeOK
    <3>3. QED
      BY <3>1, <3>2
  <2>2. QED
    BY <2>1, FileUntouched, NoForgeRuns DEF ForgeRuns
<1>6. CASE SimulateRevert \/ BroadcastRefused \/ BroadcastDone \/ ForgeFails
  <2>1. tool'.pc = "exited" /\ UNCHANGED <<chain, deployments>>
    BY <1>6 DEF SimulateRevert, BroadcastRefused, BroadcastDone, ForgeFails, ForgeExits,
                IInv, TypeOK
  <2>2. QED
    BY <2>1, FileUntouched, NoForgeRuns DEF ForgeRuns
<1>7. QED
  BY <1>1, <1>2, <1>3, <1>4, <1>5, <1>6

LEMMA HandlerUpgrades ==
  ASSUME IInv, UpgradeInv, Handler
  PROVE  UpgradeInv'
<1>1. ASSUME NEW script, NEW a, forge_script(script, a)
      PROVE  UpgradeInv'
  <2>1. /\ forge'.txs = << >> /\ forge'.base = Len(chain)
        /\ UNCHANGED <<chain, deployments>>
    BY <1>1 DEF forge_script, NoForge, disk
  <2>2. \A n \in 1..Len(chain) : ~(n > Len(chain))
    BY DEF IInv, TypeOK
  <2>3. RunInv'
    BY <2>1, <2>2 DEF RunInv, Sourced, Once, UsesEarlier, OnlyOthers
  <2>4. QED
    BY <2>1, <2>3, FileUntouched
<1>2. QED
  BY <1>1
     DEF Handler, deploy_darkpool, deploy_gas_sponsor, deploy_malleable_match_connector,
         deploy_darkpool_implementation, deploy_gas_sponsor_implementation,
         deploy_malleable_match_connector_implementation, deploy_erc20, deploy_weth

(* A contract that is collected was not collected before, and uses earlier  *)
(* ones only.                                                               *)
LEMMA CreateUpgrades ==
  ASSUME IInv, UpgradeInv, SimulateCreate
  PROVE  UpgradeInv'
<1> DEFINE kind == Steps[forge.step].name
           tx   == Transaction(kind)
<1>1. /\ tool.pc = "simulate" /\ forge.step \in DOMAIN Steps
      /\ Steps[forge.step].op = "create"
      /\ forge' = [forge EXCEPT !.step = @ + 1, !.txs = Append(@, tx)]
      /\ UNCHANGED <<chain, deployments, tool>>
  BY DEF SimulateCreate, AtStep, disk
<1>2. /\ Steps \in Seq(ScriptSteps) /\ forge.step \in 1..Len(Steps)
      /\ forge.txs \in Seq(Transactions) /\ forge.step \in Nat /\ forge.base \in Nat
      /\ forge.script \in ScriptNames
  BY <1>1, StepsOrdered DEF IInv, TypeOK, ForgeInv, Control
<1>3. kind \in Kinds /\ \A u \in Uses(kind) : Before({}, Steps, forge.step, u)
  BY <1>1, <1>2, StepsOrdered DEF InOrder
<1>4. \A u \in Uses(kind) : \E i \in 1..Len(forge.txs) :
          forge.txs[i].kind = u /\ AddressOf(u) = forge.base + i
  BY <1>1, <1>3, UsedIsCreated
<1>5. tx.kind = kind /\ tx.uses = {<<u, AddressOf(u)>> : u \in Uses(kind)}
  BY DEF Transaction
<1>6. Steps[forge.step] = create(kind)
  <2>1. \A r \in ScriptSteps : r = [op |-> r.op, name |-> r.name]
    BY DEF ScriptSteps
  <2>2. Steps[forge.step] \in ScriptSteps
    BY <1>2
  <2>3. QED
    BY <1>1, <2>1, <2>2 DEF create
<1>7. ASSUME NEW i \in 1..Len(forge.txs)
      PROVE  forge.txs[i].kind # kind
  <2>1. PICK j \in 1..Len(Steps) : Steps[j] = create(forge.txs[i].kind) /\ Done(j)
    BY <1>1 DEF UpgradeInv, RunInv, Sourced, ForgeRuns
  <2>2. j < forge.step
    BY <1>1, <2>1 DEF Done
  <2>3. CreatesOnce(Steps)
    BY <1>2, ScriptsListProxies DEF Steps
  <2> HIDE DEF kind
  <2>4. QED
    BY <1>2, <1>6, <2>1, <2>2, <2>3 DEF CreatesOnce
<1> HIDE DEF kind, tx
<1>8. /\ forge'.script = forge.script /\ forge'.step = forge.step + 1
      /\ forge'.base = forge.base /\ forge'.txs = Append(forge.txs, tx)
  BY <1>1 DEF IInv, TypeOK
<1>9. /\ Len(forge'.txs) = Len(forge.txs) + 1 /\ Len(forge.txs) \in Nat
      /\ \A i \in 1..Len(forge.txs) : forge'.txs[i] = forge.txs[i]
      /\ forge'.txs[Len(forge.txs) + 1] = tx
      /\ Steps' = Steps
  BY <1>2, <1>8 DEF Steps
<1>10. Sourced'
  <2> SUFFICES ASSUME NEW i \in 1..Len(forge'.txs)
               PROVE  \E j \in 1..Len(Steps) : Steps[j] = create(forge'.txs[i].kind) /\ Done(j)'
    BY <1>9 DEF Sourced
  <2>1. CASE i \in 1..Len(forge.txs)
    <3>1. PICK j \in 1..Len(Steps) : Steps[j] = create(forge.txs[i].kind) /\ Done(j)
      BY <1>1, <2>1 DEF UpgradeInv, RunInv, Sourced, ForgeRuns
    <3>2. Done(j)'
      BY <1>1, <1>2, <1>8, <3>1 DEF Done
    <3>3. QED
      BY <1>9, <2>1, <3>1, <3>2
  <2>2. CASE i = Len(forge.txs) + 1
    <3>1. PICK j \in 1..Len(Steps) : j = forge.step
      BY <1>2
    <3>2. Done(j)'
      BY <1>1, <1>2, <1>8, <3>1 DEF Done
    <3>3. Steps[j] = create(forge'.txs[i].kind)
      BY <1>5, <1>6, <1>9, <2>2, <3>1
    <3>4. QED
      BY <3>2, <3>3
  <2>3. QED
    BY <1>9, <2>1, <2>2
<1>11. Once'
  <2> SUFFICES ASSUME NEW i \in 1..Len(forge'.txs), NEW k \in 1..Len(forge'.txs),
                      forge'.txs[i].kind = forge'.txs[k].kind
               PROVE  i = k
    BY DEF Once
  <2>1. CASE i \in 1..Len(forge.txs) /\ k \in 1..Len(forge.txs)
    BY <1>1, <1>9, <2>1 DEF UpgradeInv, RunInv, Once, ForgeRuns
  <2>2. CASE i = Len(forge.txs) + 1 \/ k = Len(forge.txs) + 1
    <3>1. forge'.txs[Len(forge.txs) + 1].kind = kind
      BY <1>5, <1>9
    <3>2. ASSUME NEW j \in 1..Len(forge.txs) PROVE forge'.txs[j].kind # kind
      BY <1>7, <1>9
    <3>3. QED
      BY <1>9, <2>2, <3>1, <3>2
  <2>3. QED
    BY <1>9, <2>1, <2>2
<1>12. UsesEarlier'
  <2> SUFFICES ASSUME NEW i \in 1..Len(forge'.txs), NEW u \in forge'.txs[i].uses
               PROVE  u[2] <= forge.base + i
    BY <1>8 DEF UsesEarlier
  <2>1. CASE i \in 1..Len(forge.txs)
    BY <1>1, <1>9, <2>1 DEF UpgradeInv, RunInv, UsesEarlier, ForgeRuns
  <2>2. CASE i = Len(forge.txs) + 1
    <3>1. PICK v \in Uses(kind) : u = <<v, AddressOf(v)>>
      BY <1>5, <1>9, <2>2
    <3>2. PICK k \in 1..Len(forge.txs) : AddressOf(v) = forge.base + k
      BY <1>4
    <3>3. u[2] = forge.base + k
      BY <3>1, <3>2
    <3>4. QED
      BY <1>2, <1>9, <2>2, <3>3
  <2>3. QED
    BY <1>9, <2>1, <2>2
<1>13. OnlyOthers'
  BY <1>1, <1>8 DEF UpgradeInv, RunInv, OnlyOthers
<1>14. QED
  BY <1>1, <1>10, <1>11, <1>12, <1>13, FileUntouched DEF RunInv

(* What is written is the place of a contract that is not on the chain: so  *)
(* it is later than all that is there, and no proxy is at it yet.           *)
LEMMA WriteUpgrades ==
  ASSUME IInv, UpgradeInv, SimulateWrite
  PROVE  UpgradeInv'
<1> DEFINE e == Steps[forge.step].name
<1>1. /\ tool.pc = "simulate" /\ forge.step \in DOMAIN Steps
      /\ Steps[forge.step].op = "write"
      /\ deployments' = [deployments EXCEPT ![e] = AddressOf(KindOf(e))]
      /\ forge' = [forge EXCEPT !.step = @ + 1]
      /\ UNCHANGED <<chain, tool>>
  BY DEF SimulateWrite, AtStep
<1>2. /\ Steps \in Seq(ScriptSteps) /\ forge.step \in 1..Len(Steps)
      /\ forge.txs \in Seq(Transactions) /\ forge.step \in Nat /\ forge.base \in Nat
      /\ chain \in Seq(Transactions) /\ deployments \in [Entries -> Nat]
  BY <1>1, StepsOrdered DEF IInv, TypeOK
<1>3. e \in Entries /\ Before({}, Steps, forge.step, KindOf(e))
  BY <1>1, <1>2, StepsOrdered DEF InOrder
<1>4. PICK place \in 1..Len(forge.txs) : AddressOf(KindOf(e)) = forge.base + place
  BY <1>1, <1>3, UsedIsCreated
<1>5. /\ deployments'[e] = forge.base + place /\ deployments'[e] > forge.base
      /\ \A f \in Entries : f # e => deployments'[f] = deployments[f]
  BY <1>1, <1>2, <1>3, <1>4
<1>6. /\ forge'.script = forge.script /\ forge'.step = forge.step + 1
      /\ forge'.base = forge.base /\ forge'.txs = forge.txs /\ Steps' = Steps
  BY <1>1 DEF IInv, TypeOK, Steps
<1> HIDE DEF e
<1>7. Sourced'
  <2>1. \A j \in 1..Len(Steps) : Done(j) => Done(j)'
    BY <1>1, <1>2, <1>6 DEF Done
  <2>2. QED
    BY <1>1, <1>6, <2>1 DEF UpgradeInv, RunInv, Sourced, ForgeRuns
<1>8. Once' /\ UsesEarlier' /\ OnlyOthers'
  BY <1>1, <1>6 DEF UpgradeInv, RunInv, Once, UsesEarlier, OnlyOthers, ForgeRuns
<1>9. ChainUsesEarlier'
  BY <1>1 DEF UpgradeInv, ChainUsesEarlier
<1>10. UpgradesForward'
  <2> SUFFICES ASSUME NEW p \in Proxies, deployments'[p] # 0,
                      deployments'[p] \in DOMAIN chain, chain[deployments'[p]].kind = p,
                      NEW u \in chain[deployments'[p]].uses, u[1] = Implementation(p)
               PROVE  u[2] <= deployments'[Implementation(p)]
    BY <1>1 DEF UpgradesForward, IsDeployed
  <2>1. /\ p \in Entries /\ Implementation(p) \in Entries /\ p # "other"
        /\ \A n \in 1..Len(chain) : n > forge.base => chain[n].kind = "other"
    BY <1>1 DEF Proxies, Entries, Kinds, Implementation, UpgradeInv, RunInv, OnlyOthers, Other
  <2>2. deployments'[p] \in 1..Len(chain) /\ deployments'[p] <= forge.base
    BY <1>2, <2>1
  <2>3. p # e /\ deployments'[p] = deployments[p]
    BY <1>2, <1>5, <2>1, <2>2
  <2>4. u[2] <= deployments[Implementation(p)]
    BY <2>3 DEF UpgradeInv, UpgradesForward, IsDeployed
  <2>5. u[2] <= deployments'[p]
    BY <2>2 DEF UpgradeInv, ChainUsesEarlier
  <2>6. CASE Implementation(p) = e
    <3>1. u[2] \in Nat
      <4>1. chain[deployments'[p]] \in Transactions
        BY <1>2, <2>2
      <4>2. u \in Kinds \X Nat
        BY <4>1 DEF Transactions
      <4>3. QED
        BY <4>2
    <3>2. QED
      BY <1>2, <1>5, <2>2, <2>5, <2>6, <3>1
  <2>7. CASE Implementation(p) # e
    BY <1>5, <2>1, <2>4, <2>7
  <2>8. QED
    BY <2>6, <2>7
<1>11. QED
  BY <1>7, <1>8, <1>9, <1>10 DEF UpgradeInv, RunInv

(* A proxy that gets to the chain was given the implementation that its     *)
(* script put on file.                                                      *)
LEMMA ChainUpgrades ==
  ASSUME IInv, UpgradeInv, Broadcast \/ OtherTransaction
  PROVE  UpgradeInv'
<1>1. /\ ForgeRuns /\ UNCHANGED <<deployments, tool>>
      /\ forge'.txs = forge.txs /\ forge'.base = forge.base /\ forge'.script = forge.script
      /\ forge'.step = forge.step /\ Steps' = Steps
  BY DEF Broadcast, OtherTransaction, ForgeRuns, disk, IInv, TypeOK, Steps
<1>2. /\ forge.txs \in Seq(Transactions) /\ forge.base \in Nat /\ chain \in Seq(Transactions)
      /\ deployments \in [Entries -> Nat]
  BY DEF IInv, TypeOK
<1>3. PICK tx \in Transactions :
          /\ chain' = Append(chain, tx)
          /\ \/ tx.uses = {} /\ tx.kind \notin Proxies
             \/ /\ tool.pc = "broadcast"
                /\ \E i \in 1..Len(forge.txs) :
                       tx = forge.txs[i] /\ Len(chain) + 1 = forge.base + i
          /\ tool.pc = "simulate" => tx = Other
  <2>1. CASE OtherTransaction
    BY <2>1 DEF OtherTransaction, Other, Transactions, Proxies
  <2>2. CASE Broadcast
    <3>1. /\ forge.sent + 1 \in 1..Len(forge.txs) /\ forge.txs[forge.sent + 1] \in Transactions
          /\ Len(chain) = forge.base + forge.sent /\ forge.sent \in Nat
      BY <2>2 DEF Broadcast, NonceTaken, IInv, TypeOK
    <3>2. Failed \in Transactions /\ Failed.uses = {} /\ Failed.kind \notin Proxies
      BY DEF Failed, Transactions, Proxies
    <3>3. Len(chain) + 1 = forge.base + (forge.sent + 1)
      BY <1>2, <3>1
    <3>4. QED
      BY <2>2, <3>1, <3>2, <3>3 DEF Broadcast, Mine
  <2>3. QED
    BY <2>1, <2>2
<1>4. /\ Len(chain') = Len(chain) + 1 /\ Len(chain) \in Nat
      /\ \A n \in 1..Len(chain) : chain'[n] = chain[n]
      /\ chain'[Len(chain) + 1] = tx /\ DOMAIN chain' = 1..Len(chain')
  BY <1>2, <1>3
<1>5. Sourced' /\ Once' /\ UsesEarlier'
  BY <1>1 DEF UpgradeInv, RunInv, Sourced, Once, UsesEarlier, ForgeRuns, Done
<1>6. OnlyOthers'
  BY <1>1, <1>3, <1>4 DEF UpgradeInv, RunInv, OnlyOthers
<1>7. ChainUsesEarlier'
  <2> SUFFICES ASSUME NEW n \in 1..Len(chain'), NEW u \in chain'[n].uses
               PROVE  u[2] <= n
    BY DEF ChainUsesEarlier
  <2>1. CASE n \in 1..Len(chain)
    BY <1>4, <2>1 DEF UpgradeInv, ChainUsesEarlier
  <2>2. CASE n = Len(chain) + 1
    BY <1>1, <1>3, <1>4, <2>2 DEF UpgradeInv, RunInv, UsesEarlier
  <2>3. QED
    BY <1>4, <2>1, <2>2
<1>8. UpgradesForward'
  <2> SUFFICES ASSUME NEW p \in Proxies, deployments[p] # 0,
                      deployments[p] \in DOMAIN chain', chain'[deployments[p]].kind = p,
                      NEW u \in chain'[deployments[p]].uses, u[1] = Implementation(p)
               PROVE  u[2] <= deployments[Implementation(p)]
    BY <1>1 DEF UpgradesForward, IsDeployed
  <2>1. CASE deployments[p] \in 1..Len(chain)
    <3>1. deployments[p] \in DOMAIN chain /\ chain'[deployments[p]] = chain[deployments[p]]
      BY <1>2, <1>4, <2>1
    <3>2. QED
      BY <3>1 DEF UpgradeInv, UpgradesForward, IsDeployed
  <2>2. CASE deployments[p] = Len(chain) + 1
    <3>1. PICK i \in 1..Len(forge.txs) :
              tx = forge.txs[i] /\ tool.pc = "broadcast" /\ tx.kind = p /\ u \in forge.txs[i].uses
      BY <1>3, <1>4, <2>2
    <3>2. PICK j \in 1..Len(Steps) : Steps[j] = create(p)
      BY <1>1, <3>1 DEF UpgradeInv, RunInv, Sourced
    <3>3. p \in Created(Steps)
      BY <3>2 DEF Created, Proxies, Kinds
    <3>4. Implementation(p) \in Listed(Steps)
      BY <3>1, <3>3, ScriptsListProxies DEF Steps, IInv, ForgeInv, Control
    <3>5. PICK w \in 1..Len(Steps) : Steps[w] = writeDeployment(Implementation(p))
      BY <3>4 DEF Listed
    <3>6. Steps[w].op = "write" /\ Steps[w].name = Implementation(p) /\ Done(w)
      BY <3>1, <3>5 DEF writeDeployment, Done
    <3>7. PICK k \in 1..Len(forge.txs) :
              /\ forge.txs[k].kind = KindOf(Implementation(p))
              /\ deployments[Implementation(p)] = forge.base + k
      BY <1>1, <3>6 DEF IInv, ForgeInv, Written
    <3>8. PICK m \in 1..Len(forge.txs) : u = <<forge.txs[m].kind, forge.base + m>>
      BY <1>1, <3>1 DEF IInv, ForgeInv, Wired
    <3>9. forge.txs[m].kind = forge.txs[k].kind
      BY <3>7, <3>8 DEF KindOf, Implementation, Proxies
    <3>10. m = k
      BY <1>1, <3>9 DEF UpgradeInv, RunInv, Once
    <3>11. QED
      BY <1>2, <3>7, <3>8, <3>10
  <2>3. QED
    BY <1>4, <2>1, <2>2
<1>9. QED
  BY <1>5, <1>6, <1>7, <1>8 DEF UpgradeInv, RunInv

(* Every step keeps the file ahead of the proxies.                          *)
THEOREM NextUpgradeInv == IInv /\ UpgradeInv /\ [Next]_vars => UpgradeInv'
<1> SUFFICES ASSUME IInv, UpgradeInv, [Next]_vars PROVE UpgradeInv'
  OBVIOUS
<1>1. CASE Handler
  BY <1>1, HandlerUpgrades
<1>2. CASE SimulateCreate
  BY <1>2, CreateUpgrades
<1>3. CASE SimulateWrite
  BY <1>3, WriteUpgrades
<1>4. CASE StartBroadcast
  <2>1. /\ tool.pc = "simulate" /\ tool'.pc = "broadcast"
        /\ UNCHANGED <<chain, deployments, forge>>
    BY <1>4 DEF StartBroadcast, disk, IInv, TypeOK
  <2>2. RunInv'
    BY <2>1 DEF UpgradeInv, RunInv, Sourced, Once, UsesEarlier, OnlyOthers, ForgeRuns, Done, Steps
  <2>3. QED
    BY <2>1, <2>2, FileUntouched
<1>5. CASE Broadcast \/ OtherTransaction
  BY <1>5, ChainUpgrades
<1>6. CASE UNCHANGED vars
  <2>1. UNCHANGED <<chain, deployments, tool, forge>>
    BY <1>6 DEF vars, disk
  <2>2. RunInv'
    BY <2>1 DEF UpgradeInv, RunInv, Sourced, Once, UsesEarlier, OnlyOthers, ForgeRuns, Done, Steps
  <2>3. QED
    BY <2>1, <2>2, FileUntouched
<1>7. QED
  BY <1>1, <1>2, <1>3, <1>4, <1>5, <1>6, OutsideUpgrades DEF Next, Program, Forge

-----------------------------------------------------------------------------
(* The types of the deployment tools' state, for any bounds.                *)
THEOREM TypesCorrect == Spec => []TypeOK
<1>1. IInv => TypeOK
  BY DEF IInv
<1>2. QED
  BY <1>1, InitIInv, NextIInv, PTL DEF Spec

(* Whatever runs failed or were killed, and whoever used the account in the *)
(* meantime: an entry of the deployments file that a run got through with   *)
(* is the address of a contract of its kind.                                *)
THEOREM EntriesAreDeployed == Spec => []EntriesDeployed
<1>1. IInv => EntriesDeployed
  BY DEF IInv
<1>2. QED
  BY <1>1, InitIInv, NextIInv, PTL DEF Spec

(* And that contract was given addresses of contracts that are there.       *)
THEOREM ContractsAreWired == Spec => []WiredToDeployed
<1>1. IInv => WiredToDeployed
  BY DEF IInv
<1>2. QED
  BY <1>1, InitIInv, NextIInv, PTL DEF Spec

(* A generated key that the chain knows of was saved, and is in its file    *)
(* until a later run replaces it.                                           *)
THEOREM KeysAreKept == Spec => []KeysKept
<1>1. KeyInv => KeysKept
  BY DEF KeyInv
<1>2. QED
  BY <1>1, InitIInv, NextIInv, InitKeyInv, NextKeyInv, PTL DEF Spec

(* The implementation on file is the one that the proxy on file was given,  *)
(* or one made after it: an upgrade never goes back.                        *)
THEOREM UpgradesGoForward == Spec => []UpgradesForward
<1>1. UpgradeInv => UpgradesForward
  BY DEF UpgradeInv
<1>2. QED
  BY <1>1, InitIInv, NextIInv, InitUpgradeInv, NextUpgradeInv, PTL DEF Spec
=============================================================================
