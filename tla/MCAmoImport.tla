------------------------------ MODULE MCAmoImport ------------------------------
(* Two pages, so that one follows another; versions for one resume; two   *)
(* handler tasks, so that jobs of two versions overlap; two attempts.      *)
EXTENDS AmoImport

MCPages == 2
MCMaxVersion == 6
===============================================================================
