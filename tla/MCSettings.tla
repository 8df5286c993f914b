------------------------------ MODULE MCSettings -------------------------------
(***************************************************************************)
(* Requests for model checking Settings: the form, which sends all fields, *)
(* and scripts that send some.                                             *)
(***************************************************************************)
EXTENDS Settings

CONSTANTS Preprod, Mainnet, Token

settings(provider, projectId, token) ==
  [provider |-> provider, projectId |-> projectId, token |-> token]

Environment == settings("blockfrost", None, None)

Forms ==
  { settings("blockfrost", Preprod, None), settings("blockfrost", Mainnet, None),
    settings("koios", Mainnet, None), settings("koios", Preprod, Token) }

Scripts ==
  { [provider |-> "blockfrost"], [provider |-> "koios"], [projectId |-> Preprod],
    [provider |-> "koios", projectId |-> Mainnet], [token |-> Token] }

FormsAndScripts == Forms \cup Scripts
=============================================================================
