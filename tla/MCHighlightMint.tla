-------------------------- MODULE MCHighlightMint --------------------------
(* HighlightMint with two requests.  The second is of the same user with    *)
(* another wallet, or of another user who has the address of the first      *)
(* wallet as soon as it changes hands.                                      *)
EXTENDS HighlightMint

CONSTANTS r1, r2, u1, u2, v1, v2, v3, a1, a2, k1, k2

SecondIsEither == [r \in Requests |-> IF r = r1 THEN {v1} ELSE {v2, v3}]
OwnerOfWallet == [v \in Wallets |-> IF v = v3 THEN u2 ELSE u1]
AddressOfWallet == [v \in Wallets |-> IF v = v2 THEN a2 ELSE a1]
=============================================================================
