----------------------------------- MODULE Web -----------------------------------
(***************************************************************************)
(* The web's two kinds of users: a judge with a code, whose plans the      *)
(* house wallet signs for (Visit), and a wallet of one's own (Skill).      *)
(* They share the database and no row in it, so a behaviour follows one    *)
(* of them.                                                                *)
(***************************************************************************)
EXTENDS Visit, Skill

VARIABLE side

webVars == <<side, cap, code, plan, jobs, sent, work, venus, page, left, sk, wallet, txs, req, leeway>>

NoSkill == SkillInit /\ leeway = CHOOSE l \in Leeways : TRUE
NoVisit == VisitInit /\ cap = (CHOOSE c \in Caps : TRUE) /\ left = CHOOSE b \in Budgets : TRUE

WebInit == \/ side = "judge" /\ VisitInit /\ NoSkill
           \/ side = "skill" /\ SkillInit /\ NoVisit
WebNext == /\ UNCHANGED side
           /\ \/ side = "judge" /\ VisitNext /\ UNCHANGED skillVars
              \/ side = "skill" /\ SkillNext /\ UNCHANGED visitVars
WebSpec == WebInit /\ [][WebNext]_webVars /\ VisitFair

=================================================================================
