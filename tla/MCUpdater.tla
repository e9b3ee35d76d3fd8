------------------------------- MODULE MCUpdater -------------------------------
EXTENDS Updater

CONSTANTS engine, codec

(* One library every release has, one the next release brings.              *)
MCLibs == <<codec, engine>>

(* The single-file install. *)
NoLibs == <<>>
=============================================================================
