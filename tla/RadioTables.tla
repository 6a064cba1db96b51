---------------------------- MODULE RadioTables ----------------------------
(***************************************************************************)
(* The tables of the radio service are written in parts, one for each      *)
(* stretch of the source.  Merged gives the table that has all of them; a  *)
(* name that two parts have would be the first one's, as with TLC's @@,    *)
(* of which the proof system knows no definition.                          *)
(***************************************************************************)
EXTENDS Naturals, Sequences

Merged(parts) ==
    [x \in UNION {DOMAIN parts[i] : i \in DOMAIN parts} |->
        parts[CHOOSE i \in DOMAIN parts : x \in DOMAIN parts[i]][x]]
=============================================================================
