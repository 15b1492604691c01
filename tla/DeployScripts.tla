---------------------------- MODULE DeployScripts ---------------------------
(***************************************************************************)
(* The forge scripts under script/, as the steps that their run functions   *)
(* take in script/utils/DeployUtils.sol: contracts are created, and entries *)
(* of the deployments file are written.  A proxy makes its own ProxyAdmin,  *)
(* so the entry of an admin is given by the proxy it administers.           *)
(***************************************************************************)
EXTENDS Integers, Sequences

create(kind)       == [op |-> "create", name |-> kind]
writeDeployment(e) == [op |-> "write", name |-> e]

deployHasher == <<create("Hasher"), writeDeployment("Hasher")>>

deployVKeysAndVerifier ==
    <<create("VKeys"), create("Verifier"),
      writeDeployment("VKeys"), writeDeployment("Verifier")>>

deployTransferExecutor ==
    <<create("TransferExecutor"), writeDeployment("TransferExecutor")>>

deployDarkpoolImplementation == <<create("Darkpool"), writeDeployment("Darkpool")>>

deployGasSponsorImplementation == <<create("GasSponsor"), writeDeployment("GasSponsor")>>

deployMalleableMatchConnectorImplementation ==
    <<create("MalleableMatchConnector"), writeDeployment("MalleableMatchConnector")>>

\* A slip: the implementation is not put on file.
deployCoreUnlisted ==
    deployHasher \o deployVKeysAndVerifier \o deployTransferExecutor \o
    <<create("Darkpool"), create("DarkpoolProxy"),
      writeDeployment("DarkpoolProxy"), writeDeployment("ProxyAdmin")>>

deployCore ==
    deployHasher \o deployVKeysAndVerifier \o deployTransferExecutor \o
    <<create("Darkpool"), create("DarkpoolProxy"),
      writeDeployment("Darkpool"), writeDeployment("DarkpoolProxy"),
      writeDeployment("ProxyAdmin")>>

deployGasSponsor ==
    deployGasSponsorImplementation \o
    <<create("GasSponsorProxy"), writeDeployment("GasSponsorProxy"),
      writeDeployment("GasSponsorProxyAdmin")>>

deployMalleableMatchConnector ==
    deployMalleableMatchConnectorImplementation \o
    <<create("MalleableMatchConnectorProxy"),
      writeDeployment("MalleableMatchConnectorProxy"),
      writeDeployment("MalleableMatchConnectorProxyAdmin")>>

(* Test tokens: a mock with its initial supply, or wrapped ether.           *)
DeployDummyERC20 == <<create("MockERC20"), create("mint")>>
DeployWethMock   == <<create("WethMock")>>

ScriptNames ==
    {"Deploy", "DeployDarkpoolImplementation", "DeployGasSponsor",
     "DeployGasSponsorImplementation", "DeployMalleableMatchConnector",
     "DeployMalleableMatchConnectorImplementation", "DeployDummyERC20", "DeployWethMock"}

Script(name) ==
    CASE name = "Deploy"                         -> deployCore
      [] name = "DeployDarkpoolImplementation"   -> deployDarkpoolImplementation
      [] name = "DeployGasSponsor"               -> deployGasSponsor
      [] name = "DeployGasSponsorImplementation" -> deployGasSponsorImplementation
      [] name = "DeployMalleableMatchConnector"  -> deployMalleableMatchConnector
      [] name = "DeployMalleableMatchConnectorImplementation" ->
             deployMalleableMatchConnectorImplementation
      [] name = "DeployDummyERC20"               -> DeployDummyERC20
      [] name = "DeployWethMock"                 -> DeployWethMock

(* Entries of the deployments file, and the contract that each is about.    *)
Kinds ==
    {"Hasher", "VKeys", "Verifier", "TransferExecutor", "Darkpool", "DarkpoolProxy",
     "GasSponsor", "GasSponsorProxy", "MalleableMatchConnector",
     "MalleableMatchConnectorProxy", "MockERC20", "mint", "WethMock"}

Admins == {"ProxyAdmin", "GasSponsorProxyAdmin", "MalleableMatchConnectorProxyAdmin"}

Entries == (Kinds \ {"MockERC20", "mint", "WethMock"}) \cup Admins

KindOf(entry) ==
    CASE entry = "ProxyAdmin"                        -> "DarkpoolProxy"
      [] entry = "GasSponsorProxyAdmin"              -> "GasSponsorProxy"
      [] entry = "MalleableMatchConnectorProxyAdmin" -> "MalleableMatchConnectorProxy"
      [] OTHER                                       -> entry

(* The contract whose code a proxy delegates to.                            *)
Proxies == {"DarkpoolProxy", "GasSponsorProxy", "MalleableMatchConnectorProxy"}

Implementation(proxy) ==
    CASE proxy = "DarkpoolProxy"                -> "Darkpool"
      [] proxy = "GasSponsorProxy"              -> "GasSponsor"
      [] proxy = "MalleableMatchConnectorProxy" -> "MalleableMatchConnector"

(* The contracts of the same script whose addresses a constructor is given. *)
Uses(kind) ==
    CASE kind = "Verifier"      -> {"VKeys"}
      [] kind = "DarkpoolProxy" -> {"Darkpool", "Hasher", "Verifier", "TransferExecutor"}
      [] kind \in Proxies \ {"DarkpoolProxy"} -> {Implementation(kind)}
      [] kind = "mint"          -> {"MockERC20"}
      [] OTHER                  -> {}
=============================================================================
