-------------------------- MODULE MCRadioCallbacks --------------------------
(* Small instances of RadioCallbacks.                                      *)
EXTENDS RadioCallbacks

OneRadio == {<<1, "radio">>}
=============================================================================
