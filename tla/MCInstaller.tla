---------------------------- MODULE MCInstaller -----------------------------
EXTENDS Installer, TLC

CONSTANTS delivered, newer, rebuilt, unsigned, undescribed, web1, web2

(* `rebuilt' differs from `newer' although its files have the same version. *)
MCVersionOf ==
    [p \in {delivered, newer, rebuilt, unsigned, undescribed} |->
       CASE p = delivered -> 1 [] p \in {newer, rebuilt} -> 2 [] OTHER -> 3]

Symmetry == Permutations(Uploaders)
=============================================================================
