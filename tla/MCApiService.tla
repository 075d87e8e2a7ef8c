----------------------------- MODULE MCApiService -----------------------------
(* Small instances of ApiService for TLC.                                   *)
EXTENDS ApiService

(* Everything but the request for a token may fail, or that as well.        *)
AllButToken == Requests \ {"token"}
=============================================================================
