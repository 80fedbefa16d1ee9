----------------------------- MODULE MCPageApi -----------------------------
(***************************************************************************)
(* TLC instance of PageApi: a connected page asks for anything, while      *)
(* another page connects or the popup signs.                               *)
(***************************************************************************)
EXTENDS PageApi, TLC

CONSTANTS first, second, bank, shop

MCOrigin == first :> bank @@ second :> shop
MCAsks == first :> {"eth_accounts", "eth_requestAccounts", "personal_sign"}
       @@ second :> {"eth_requestAccounts", "sign"}
=============================================================================
