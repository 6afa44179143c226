----------------------------- MODULE Respondent -----------------------------
(***************************************************************************)
(* The RESPONDENT socket, raw and not (protocols/survey/xrespondent.c,     *)
(* respondent.c): the code of the REP socket under other names.            *)
(***************************************************************************)
EXTENDS Rep

nn_xrespondent_add(p) == nn_xrep_add(p)
nn_xrespondent_rm(p) == nn_xrep_rm(p)
nn_xrespondent_in(p) == nn_xrep_in(p)
nn_xrespondent_out(p) == nn_xrep_out(p)
nn_respondent_send(h) == nn_rep_send(h)
nn_respondent_recv == nn_rep_recv

RespondentNext ==
  \/ \E p \in Pipes :
       \/ nn_pipebase_start(p, FALSE) /\ nn_xrespondent_add(p)
       \/ (nn_pipebase_received(p) \/ nn_pipebase_sent(p)) /\ UNCHANGED <<sk, bad>>
       \/ nn_pipebase_stop(p, "ACTIVE") /\ nn_xrespondent_rm(p)
       \/ nn_sock_handler(p, "IN") /\ nn_xrespondent_in(p)
       \/ nn_sock_handler(p, "OUT") /\ nn_xrespondent_out(p)
  \/ \E h \in sk.held : nn_respondent_send(h)
  \/ nn_respondent_recv
=============================================================================
