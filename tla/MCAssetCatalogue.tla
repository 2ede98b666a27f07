-------------------------- MODULE MCAssetCatalogue --------------------------
(***************************************************************************)
(* Two imports that insert the same two tags in different order, and edits *)
(* that claim a publication of theirs.                                     *)
(***************************************************************************)
EXTENDS AssetCatalogue, TLC

CONSTANTS doi

NewAsset(a, t, identities) == [asset |-> a, tags |-> {t}, meta |-> identities]

Forth == <<NewAsset(3, 1, {doi}), NewAsset(4, 2, {})>>
Back  == <<NewAsset(4, 2, {}), NewAsset(3, 1, {})>>

SomeEdits == {[meta |-> {}, tags |-> {}], [meta |-> {doi}, tags |-> {2}]}

TwoBatches == {Forth, Back}

Symmetry == Permutations(Requests) \cup Permutations(Versions)
=============================================================================
