----------------------------- MODULE MCArchive -----------------------------
(* Instances of Archive for TLC. *)
EXTENDS Archive

\* The owner may export and the BBS may publish, but nobody may redistribute.
MCRightsSets == {{"export_from_archive", "publish_to_bbs_filebase"}}
=============================================================================
