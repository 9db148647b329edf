------------------------------- MODULE States -------------------------------
(***************************************************************************)
(* The status fields of the system and their white-listed transitions      *)
(* (backend/app/core/states.py).  Every other module goes through these    *)
(* tables, as every service of the program goes through ensure_transition. *)
(***************************************************************************)

CollectStatus == {"COLLECTED", "MAPPED", "TRANSFORMED", "UNMATCHED"}
ArticleStatus ==
  {"TRANSFORMED", "PENDING_REVIEW", "APPROVED", "REJECTED", "DRAFT_CREATED"}
TaskStatus == {"SCHEDULED", "PUBLISHING", "PUBLISHED", "FAILED"}
WxLoginStatus ==
  {"UNAUTHORIZED", "AUTHORIZED", "EXPIRING", "EXPIRED", "REVOKED"}

CollectTransitions ==
  {<<"COLLECTED", "MAPPED">>, <<"COLLECTED", "UNMATCHED">>,
   <<"MAPPED", "TRANSFORMED">>, <<"MAPPED", "UNMATCHED">>,
   <<"UNMATCHED", "MAPPED">>}

ArticleTransitions ==
  {<<"TRANSFORMED", "PENDING_REVIEW">>, <<"TRANSFORMED", "APPROVED">>,
   <<"PENDING_REVIEW", "APPROVED">>, <<"PENDING_REVIEW", "REJECTED">>,
   <<"REJECTED", "PENDING_REVIEW">>, <<"REJECTED", "TRANSFORMED">>,
   <<"APPROVED", "DRAFT_CREATED">>}

\* There is no SCHEDULED -> FAILED: a task can only fail once it is PUBLISHING.
TaskTransitions ==
  {<<"SCHEDULED", "PUBLISHING">>, <<"PUBLISHING", "PUBLISHED">>,
   <<"PUBLISHING", "FAILED">>, <<"FAILED", "SCHEDULED">>}

WxLoginTransitions ==
  {<<"UNAUTHORIZED", "AUTHORIZED">>,
   <<"AUTHORIZED", "EXPIRING">>, <<"AUTHORIZED", "EXPIRED">>,
   <<"AUTHORIZED", "REVOKED">>, <<"AUTHORIZED", "AUTHORIZED">>,
   <<"EXPIRING", "AUTHORIZED">>, <<"EXPIRING", "EXPIRED">>,
   <<"EXPIRING", "REVOKED">>,
   <<"EXPIRED", "AUTHORIZED">>, <<"REVOKED", "AUTHORIZED">>}

\* The value a status field holds after "try ensure_transition; assign; except
\* IllegalTransition: pass", the form _fail and _downgrade_login use.
Moved(transitions, from, to) ==
  IF <<from, to>> \in transitions THEN to ELSE from
=============================================================================
