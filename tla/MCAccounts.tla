------------------------------ MODULE MCAccounts ------------------------------
(***************************************************************************)
(* What the daemon is configured with, for TLC: the accounts, an MCP       *)
(* server and the model catalog.  They share no state: a behaviour is      *)
(* about one of them, and the others stay in their initial states, where   *)
(* no action of the MCP client that is treated fairly is enabled.  What is *)
(* asked of the accounts is an invariant and needs no fairness.            *)
(***************************************************************************)
EXTENDS Accounts, McpClient, Catalog

VARIABLE part

PartInit ==
    /\ part \in {"accounts", "mcp", "catalog"}
    /\ AccountsInit
    /\ McpInit
    /\ CatalogInit
    /\ part # "accounts" => file = Nothing /\ blobs = {} /\ account = Default

PartNext ==
    /\ \/ part = "accounts" /\ AccountsNext /\ UNCHANGED <<mcpVars, catVars>>
       \/ part = "mcp" /\ McpNext /\ UNCHANGED <<acVars, catVars>>
       \/ part = "catalog" /\ CatalogNext /\ UNCHANGED <<acVars, mcpVars>>
    /\ UNCHANGED part

PartSpec ==
    /\ PartInit
    /\ [][PartNext]_<<acVars, mcpVars, catVars, part>>
    /\ McpFairness
    \* CatalogFairness, for its own behaviours
    /\ WF_catVars(part = "catalog" /\ MaintenanceStep)
    /\ WF_catVars(part = "catalog" /\ CatalogHandle)
    /\ WF_catVars(part = "catalog" /\ WatchStep)
    /\ WF_catVars(part = "catalog" /\ Tick(TRUE))

===============================================================================
