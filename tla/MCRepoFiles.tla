----------------------------- MODULE MCRepoFiles -----------------------------
(***************************************************************************)
(* One mirror in the configuration and one in the mirror list, a           *)
(* repository that is published twice, the first time with databases.      *)
(***************************************************************************)
EXTENDS RepoFiles

MCBaseUrls == <<"configured">>
MCListed == <<"listed">>

=============================================================================
