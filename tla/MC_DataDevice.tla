---------------------------- MODULE MC_DataDevice ----------------------------
(* Two MIME types, so that one can be missing or be a stray of another       *)
(* offer; three offers, so that one is pending while another is held; two    *)
(* sources, so that one replaces the other.                                  *)
EXTENDS DataDevice
MCMimes == {"text", "html"}
MCMime == {"text"}
=============================================================================
