------------------------------- MODULE Deploy -------------------------------
(***************************************************************************)
(* The deployment tools (tools/deploy, tools/deploy-dummy-erc20) and what   *)
(* they leave behind: contracts on a chain, the deployments file, and files *)
(* with the private keys that the tools generate.  An operator runs them    *)
(* one after the other; a run may fail or be killed between any two steps.  *)
(*                                                                         *)
(* A run obtains its arguments, generates a key if it has to, and starts    *)
(* forge.  Forge executes the script to the end first: addresses are        *)
(* predicted from the account's nonce and written to the deployments file   *)
(* as the script goes.  Only then are the transactions sent.                *)
(***************************************************************************)
EXTENDS DeployScripts, FiniteSets

CONSTANTS MaxRuns,          \* bound: runs of the tools
          MaxFailed,        \* bound: transactions of a run that fail by themselves
          MaxOther          \* bound: transactions made in between with the account

VARIABLES chain,            \* the account's transactions; number n is nonce n - 1
          deployments,      \* deployments file: the transaction an entry is from, or 0
          keyFile,          \* the key in a file, or 0: no file, or an empty one
          newest,           \* the keys generated for a file are 1..newest
          tool, args, forge,
          report,           \* what the last run ended with
          runs,
          torn              \* auxiliary: entries written by runs that did not get through

disk == <<deployments, keyFile, newest, torn>>
vars == <<chain, disk, tool, args, forge, report, runs>>

DECRYPTION_KEY_PATH       == "fee_decryption_key.txt"
GAS_SPONSOR_AUTH_KEY_PATH == "gas_sponsor_auth_key.txt"
KeyFiles == {DECRYPTION_KEY_PATH, GAS_SPONSOR_AUTH_KEY_PATH}

-----------------------------------------------------------------------------
(* Subcommands, and the arguments that each looks at, in order.             *)
prompt_for_darkpool_args ==
    <<"owner", "permit2", "weth", "fee_recipient", "protocol_fee_rate">>

prompt_for_gas_sponsor_args == <<"owner", "darkpool", "auth_address">>

prompt_for_malleable_match_connector_args == <<"owner", "gas_sponsor">>

prompt_for_missing_erc20_args == <<"name", "symbol", "decimals">>

Commands ==
    {"deploy-darkpool", "deploy-gas-sponsor", "deploy-darkpool-implementation",
     "deploy-gas-sponsor-implementation", "deploy-malleable-match-connector",
     "deploy-malleable-match-connector-implementation", "deploy-erc20", "deploy-weth"}

Fields(cmd) ==
    CASE cmd = "deploy-darkpool"                  -> prompt_for_darkpool_args
      [] cmd = "deploy-gas-sponsor"               -> prompt_for_gas_sponsor_args
      [] cmd = "deploy-malleable-match-connector" -> prompt_for_malleable_match_connector_args
      [] cmd = "deploy-erc20"                     -> prompt_for_missing_erc20_args
      [] OTHER                                    -> << >>

(* What an operator may give: the zero address is an address too, and the   *)
(* contract to work with is looked up in the deployments file, or is some   *)
(* address that this account has not made.                                  *)
Values(field) ==
    CASE field = "owner"       -> {"operator", "zero"}
      [] field = "darkpool"    -> {0, deployments["DarkpoolProxy"]}
      [] field = "gas_sponsor" -> {0, deployments["GasSponsorProxy"]}
      [] OTHER                 -> {"given"}

NoTool  == [pc |-> "idle", cmd |-> "none", field |-> 0, asking |-> FALSE]
NoArgs  == [owner |-> "none", target |-> 0, key |-> 0]
NoForge == [script |-> "none", args |-> NoArgs, step |-> 0, base |-> 0, txs |-> << >>,
            sent |-> 0, status |-> 0]

Init ==
    /\ chain = << >>
    /\ deployments = [e \in Entries |-> 0]
    /\ keyFile = [f \in KeyFiles |-> 0] /\ newest = [f \in KeyFiles |-> 0]
    /\ tool = NoTool /\ args = NoArgs /\ forge = NoForge
    /\ report = [script |-> "none", outcome |-> "none"]
    /\ runs = 0 /\ torn = {}

-----------------------------------------------------------------------------
(* Command line and prompts.                                                *)

main ==
    /\ tool.pc = "idle" /\ runs < MaxRuns
    /\ runs' = runs + 1
    /\ \E cmd \in Commands :
          tool' = [pc |-> "args", cmd |-> cmd, field |-> 1, asking |-> FALSE]
    /\ report' = [script |-> "none", outcome |-> "none"]
    /\ UNCHANGED <<chain, disk, args, forge>>

Finish(outcome) ==
    /\ tool' = NoTool /\ args' = NoArgs /\ forge' = NoForge
    /\ report' = [script |-> forge.script, outcome |-> outcome]
    /\ UNCHANGED <<chain, disk, runs>>

AtField(fields) ==
    /\ tool.pc = "args" /\ tool.field \in DOMAIN Fields(tool.cmd)
    /\ Fields(tool.cmd)[tool.field] \in fields

AllFields == tool.pc = "args" /\ tool.field > Len(Fields(tool.cmd))

Field == Fields(tool.cmd)[tool.field]

Obtain(value) ==
    /\ args' = CASE Field = "owner"                     -> [args EXCEPT !.owner = value]
                 [] Field \in {"darkpool", "gas_sponsor"} -> [args EXCEPT !.target = value]
                 [] OTHER                               -> args
    /\ tool' = [tool EXCEPT !.field = @ + 1, !.asking = FALSE]
    /\ UNCHANGED <<chain, disk, forge, report, runs>>

AddressFields ==
    {"owner", "permit2", "weth", "fee_recipient", "darkpool", "auth_address", "gas_sponsor"}

AnyField == AddressFields \cup {"protocol_fee_rate", "name", "symbol", "decimals"}

(* The argument is on the command line and good; a rate is not looked at.   *)
TakeArgument ==
    /\ AtField(AnyField) /\ ~tool.asking
    /\ \E v \in Values(Field) : Obtain(v)

(* It is absent, or not an address.  For an auth address that is absent,    *)
(* see generate_auth_key_pair.                                              *)
Ask ==
    /\ AtField(AnyField) /\ ~tool.asking
    /\ tool' = [tool EXCEPT !.asking = TRUE]
    /\ UNCHANGED <<chain, disk, args, forge, report, runs>>

(* The prompts loop on an answer that is not good, which changes nothing.   *)
prompt_for_eth_address ==
    /\ AtField(AddressFields) /\ tool.asking
    /\ \E v \in Values(Field) : Obtain(v)

prompt_for_f64   == AtField({"protocol_fee_rate"}) /\ tool.asking /\ Obtain("given")
prompt_for_u8    == AtField({"decimals"}) /\ tool.asking /\ Obtain("given")
prompt_for_input == AtField({"name", "symbol"}) /\ tool.asking /\ Obtain("given")

Answer == prompt_for_eth_address \/ prompt_for_f64 \/ prompt_for_u8 \/ prompt_for_input

-----------------------------------------------------------------------------
(* Keys.  The file is created, which empties one from an earlier run, and   *)
(* then written.                                                            *)

KeyPath ==
    IF tool.cmd = "deploy-darkpool" THEN DECRYPTION_KEY_PATH ELSE GAS_SPONSOR_AUTH_KEY_PATH

GenerateKey(path) ==
    /\ newest' = [newest EXCEPT ![path] = @ + 1]
    /\ args' = [args EXCEPT !.key = newest'[path]]
    /\ keyFile' = [keyFile EXCEPT ![path] = 0]
    /\ tool' = [tool EXCEPT !.pc = "save_key"]
    /\ UNCHANGED <<chain, deployments, torn, forge, report, runs>>

generate_auth_key_pair ==
    /\ AtField({"auth_address"}) /\ ~tool.asking
    /\ GenerateKey(GAS_SPONSOR_AUTH_KEY_PATH)

NeedsFeeKey == AllFields /\ tool.cmd = "deploy-darkpool"

generate_fee_encryption_key == NeedsFeeKey /\ GenerateKey(DECRYPTION_KEY_PATH)

(* A key of the operator's own is not written anywhere.                     *)
derive_fee_encryption_key ==
    /\ NeedsFeeKey
    /\ tool' = [tool EXCEPT !.pc = "have_key"]
    /\ UNCHANGED <<chain, disk, args, forge, report, runs>>

get_fee_key == derive_fee_encryption_key \/ generate_fee_encryption_key

\* A slip: both keys go to the file of the gas sponsor's.
SaveKeyInOneFile(path) == [keyFile EXCEPT ![GAS_SPONSOR_AUTH_KEY_PATH] = args.key]

SavedKey(path) == [keyFile EXCEPT ![path] = args.key]

SaveKey ==
    /\ tool.pc = "save_key"
    /\ keyFile' = SavedKey(KeyPath)
    /\ tool' = IF tool.cmd = "deploy-darkpool" THEN [tool EXCEPT !.pc = "have_key"]
               ELSE [tool EXCEPT !.pc = "args", !.field = @ + 1]
    /\ UNCHANGED <<chain, deployments, newest, torn, args, forge, report, runs>>

(* Reading an answer, parsing a key, or creating or writing a file fails.   *)
IOError == (AtField(AnyField) \/ NeedsFeeKey \/ tool.pc = "save_key") /\ Finish("error")

-----------------------------------------------------------------------------
(* The handlers of the subcommands build the forge command.                 *)

forge_script(script, a) ==
    /\ forge' = [NoForge EXCEPT !.script = script, !.args = a, !.step = 1,
                                !.base = Len(chain)]
    /\ tool' = [tool EXCEPT !.pc = "simulate"]
    /\ UNCHANGED <<chain, disk, args, report, runs>>

deploy_darkpool ==
    /\ tool.pc = "have_key"
    /\ forge_script("Deploy", [owner |-> args.owner, target |-> 0, key |-> args.key])

deploy_gas_sponsor ==
    /\ AllFields /\ tool.cmd = "deploy-gas-sponsor"
    /\ forge_script("DeployGasSponsor",
                    [owner |-> args.owner, target |-> args.target, key |-> args.key])

deploy_malleable_match_connector ==
    /\ AllFields /\ tool.cmd = "deploy-malleable-match-connector"
    /\ forge_script("DeployMalleableMatchConnector",
                    [owner |-> args.owner, target |-> args.target, key |-> 0])

deploy_darkpool_implementation ==
    /\ AllFields /\ tool.cmd = "deploy-darkpool-implementation"
    /\ forge_script("DeployDarkpoolImplementation", NoArgs)

deploy_gas_sponsor_implementation ==
    /\ AllFields /\ tool.cmd = "deploy-gas-sponsor-implementation"
    /\ forge_script("DeployGasSponsorImplementation", NoArgs)

deploy_malleable_match_connector_implementation ==
    /\ AllFields /\ tool.cmd = "deploy-malleable-match-connector-implementation"
    /\ forge_script("DeployMalleableMatchConnectorImplementation", NoArgs)

deploy_erc20 ==
    /\ AllFields /\ tool.cmd = "deploy-erc20"
    /\ forge_script("DeployDummyERC20", NoArgs)

deploy_weth ==
    /\ AllFields /\ tool.cmd = "deploy-weth"
    /\ forge_script("DeployWethMock", NoArgs)

Handler ==
    \/ deploy_darkpool \/ deploy_gas_sponsor \/ deploy_malleable_match_connector
    \/ deploy_darkpool_implementation \/ deploy_gas_sponsor_implementation
    \/ deploy_malleable_match_connector_implementation
    \/ deploy_erc20 \/ deploy_weth

-----------------------------------------------------------------------------
(* Forge: the script is executed, then its transactions are sent.           *)

Steps == Script(forge.script)

(* Where the contract of a kind will be, once its creation is collected.    *)
AddressOf(kind) ==
    forge.base + CHOOSE i \in DOMAIN forge.txs : forge.txs[i].kind = kind

\* A slip: constructors are given the addresses on file.
TransactionFromFile(kind) ==
    [kind   |-> kind,
     uses   |-> {<<k, IF k \in Entries THEN deployments[k] ELSE AddressOf(k)>> : k \in Uses(kind)},
     target |-> IF kind \in Proxies THEN forge.args.target ELSE 0,
     key    |-> IF kind \in Proxies THEN forge.args.key ELSE 0]

Transaction(kind) ==
    [kind   |-> kind,
     uses   |-> {<<k, AddressOf(k)>> : k \in Uses(kind)},
     target |-> IF kind \in Proxies THEN forge.args.target ELSE 0,
     key    |-> IF kind \in Proxies THEN forge.args.key ELSE 0]

ForgeExits(status) ==
    /\ forge' = [forge EXCEPT !.status = status]
    /\ tool' = [tool EXCEPT !.pc = "exited"]
    /\ UNCHANGED <<chain, deployments, keyFile, newest, args, report, runs>>

AtStep(op) ==
    tool.pc = "simulate" /\ forge.step \in DOMAIN Steps /\ Steps[forge.step].op = op

(* A proxy's admin cannot be owned by the zero address.                     *)
Reverts(kind) == kind \in Proxies /\ forge.args.owner = "zero"

SimulateCreate ==
    /\ AtStep("create")
    /\ LET kind == Steps[forge.step].name
       IN  /\ ~Reverts(kind)
           /\ forge' = [forge EXCEPT !.step = @ + 1, !.txs = Append(@, Transaction(kind))]
    /\ UNCHANGED <<chain, disk, tool, args, report, runs>>

SimulateRevert ==
    /\ AtStep("create") /\ Reverts(Steps[forge.step].name)
    /\ ForgeExits(1) /\ UNCHANGED torn

SimulateWrite ==
    /\ AtStep("write")
    /\ LET e == Steps[forge.step].name
       IN  /\ deployments' = [deployments EXCEPT ![e] = AddressOf(KindOf(e))]
           /\ torn' = torn \cup {e}
    /\ forge' = [forge EXCEPT !.step = @ + 1]
    /\ UNCHANGED <<chain, keyFile, newest, tool, args, report, runs>>

StartBroadcast ==
    /\ tool.pc = "simulate" /\ forge.step \notin DOMAIN Steps
    /\ tool' = [tool EXCEPT !.pc = "broadcast"]
    /\ UNCHANGED <<chain, disk, args, forge, report, runs>>

IsDeployed(kind, n) == n \in DOMAIN chain /\ chain[n].kind = kind

Failed == [kind |-> "failed", uses |-> {}, target |-> 0, key |-> 0]

Sent == {forge.base + i : i \in 1..forge.sent}

FailedSent == {n \in Sent : chain[n] = Failed}

(* A transaction carries the nonce it was simulated with.  One that fails   *)
(* uses up its nonce, and the ones after it are sent all the same.  The     *)
(* constructor of a proxy fails when its implementation has no code.        *)
ConstructorFails(tx) ==
    /\ tx.kind \in Proxies
    /\ \E u \in tx.uses : u[1] = Implementation(tx.kind) /\ ~IsDeployed(u[1], u[2])

Mine(tx) ==
    \/ ~ConstructorFails(tx) /\ chain' = Append(chain, tx)
    \/ /\ ConstructorFails(tx) \/ Cardinality(FailedSent) < MaxFailed
       /\ chain' = Append(chain, Failed)

\* A slip: the node assigns the nonces.
NonceNeverTaken == FALSE

NonceTaken == Len(chain) # forge.base + forge.sent

Broadcast ==
    /\ tool.pc = "broadcast" /\ forge.sent < Len(forge.txs)
    /\ ~NonceTaken
    /\ Mine(forge.txs[forge.sent + 1])
    /\ forge' = [forge EXCEPT !.sent = @ + 1]
    /\ UNCHANGED <<disk, tool, args, report, runs>>

BroadcastRefused ==
    /\ tool.pc = "broadcast" /\ forge.sent < Len(forge.txs)
    /\ NonceTaken
    /\ ForgeExits(1) /\ UNCHANGED torn

EntriesOf(script) ==
    {e \in Entries : \E i \in DOMAIN Script(script) : Script(script)[i] = writeDeployment(e)}

BroadcastDone ==
    /\ tool.pc = "broadcast" /\ forge.sent = Len(forge.txs)
    /\ ForgeExits(IF FailedSent = {} THEN 0 ELSE 1)
    /\ torn' = IF FailedSent = {} THEN torn \ EntriesOf(forge.script) ELSE torn

(* huffc, the node or forge itself fails.                                   *)
ForgeFails ==
    /\ tool.pc \in {"simulate", "broadcast"}
    /\ \E status \in {1, 101} : ForgeExits(status)
    /\ UNCHANGED torn

\* A slip: a command that did not end well is run again.
run_command_again ==
    /\ tool.pc = "exited"
    /\ IF forge.status \in {0, 1} THEN Finish("success") ELSE forge_script(forge.script, forge.args)

(* Exit code 1 is taken for a warning.                                      *)
run_command ==
    /\ tool.pc = "exited"
    /\ Finish(IF forge.status \in {0, 1} THEN "success" ELSE "error")

-----------------------------------------------------------------------------
(* The account is used elsewhere; the run is killed.                        *)

Other == [kind |-> "other", uses |-> {}, target |-> 0, key |-> 0]

(* Until forge starts, nothing looks at the chain.                          *)
OtherTransaction ==
    /\ tool.pc \in {"simulate", "broadcast"}
    /\ Cardinality({n \in DOMAIN chain : chain[n] = Other}) < MaxOther
    /\ chain' = Append(chain, Other)
    /\ UNCHANGED <<disk, tool, args, forge, report, runs>>

Killed == tool.pc # "idle" /\ Finish("killed")

Forge == \/ SimulateCreate \/ SimulateRevert \/ SimulateWrite \/ StartBroadcast
         \/ Broadcast \/ BroadcastRefused \/ BroadcastDone

Program == \/ TakeArgument \/ Ask \/ generate_auth_key_pair \/ get_fee_key \/ SaveKey
           \/ Handler \/ Forge \/ run_command

Next ==
    \/ main \/ Program \/ Answer
    \/ IOError \/ ForgeFails \/ Killed \/ OtherTransaction

(* The programs run on, and the operator answers what is asked, with a good *)
(* answer in the end.  Nothing has to be started, and nothing has to fail.  *)
Fairness == WF_vars(Program) /\ WF_vars(Answer)

Spec == Init /\ [][Next]_vars /\ Fairness

-----------------------------------------------------------------------------
Transactions ==
    [kind : Kinds \cup {"other", "failed"}, uses : SUBSET (Kinds \X Nat),
     target : Nat, key : Nat]

Args == [owner : {"none", "operator", "zero"}, target : Nat, key : Nat]

TypeOK ==
    /\ chain \in Seq(Transactions)
    /\ deployments \in [Entries -> Nat]
    /\ keyFile \in [KeyFiles -> Nat] /\ newest \in [KeyFiles -> Nat]
    /\ tool \in [pc : {"idle", "args", "save_key", "have_key", "simulate", "broadcast", "exited"},
                 cmd : Commands \cup {"none"}, field : Nat, asking : BOOLEAN]
    /\ args \in Args
    /\ forge \in [script : ScriptNames \cup {"none"}, args : Args, step : Nat, base : Nat,
                  txs : Seq(Transactions), sent : Nat, status : Nat]
    /\ report \in [script : ScriptNames \cup {"none"},
                   outcome : {"none", "success", "error", "killed"}]
    /\ runs \in Nat /\ torn \in SUBSET Entries

(* Whatever runs failed before, and wherever they were stopped: an entry    *)
(* that the last run to write it got through with is the address of a       *)
(* contract of its kind.  The addresses are predicted before anything is    *)
(* sent, from a nonce that others may use as well.                          *)
EntriesDeployed ==
    \A e \in Entries \ torn :
        deployments[e] # 0 => IsDeployed(KindOf(e), deployments[e])

(* Such a contract was given the addresses of contracts that exist, and are *)
(* what they should be: a proxy its implementation, the darkpool its hasher *)
(* and verifier, although any transaction may fail with later ones mined.   *)
WiredToDeployed ==
    \A e \in Entries \ torn :
        deployments[e] # 0 =>
            \A u \in chain[deployments[e]].uses : IsDeployed(u[1], u[2])

(* No contract is ever on the chain with a generated key whose private part *)
(* had not been saved: its file holds the key until one is generated again. *)
KeyUser(path) == IF path = DECRYPTION_KEY_PATH THEN "DarkpoolProxy" ELSE "GasSponsorProxy"

KeysKept ==
    \A n \in DOMAIN chain, path \in KeyFiles :
        chain[n].kind = KeyUser(path) /\ chain[n].key # 0 =>
            keyFile[path] = chain[n].key \/ newest[path] > chain[n].key

(* The implementation on file is the one the proxy on file runs, or a newer *)
(* one: what the proxy is to be upgraded to.                                *)
UpgradesForward ==
    \A p \in Proxies : deployments[p] # 0 /\ IsDeployed(p, deployments[p]) =>
        \A u \in chain[deployments[p]].uses :
            u[1] = Implementation(p) => u[2] <= deployments[Implementation(p)]

(* Every run of a tool comes to an end, however its forge run goes.         *)
RunsEnd == tool.pc # "idle" ~> tool.pc = "idle"

(* "... deployment completed successfully!": what was deployed is there.    *)
ReportedIsDeployed ==
    report.outcome = "success" =>
        \A e \in EntriesOf(report.script) : IsDeployed(KindOf(e), deployments[e])
=============================================================================
