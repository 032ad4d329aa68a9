------------------------------ MODULE Accounts ------------------------------
(* Who may use the dashboard, and as whom (app/auth/, admin.py): users who    *)
(* arrive by an invitation, administrators who change them and look at the    *)
(* dashboard through another user's eyes, the journal of that, and the limit  *)
(* on attempts at a one-time code.  Requests are concurrent: each is a        *)
(* transaction that acts on what it read.                                     *)
EXTENDS Integers, Sequences

CONSTANTS
    Emails, Seed,           \* and the administrator the migration creates
    Slots,                  \* the requests that may be open at once
    MaxEvents, MaxTime,     \* bounds: of the journal, and of time
    MaxHits, Span           \* attempts, and the time they are counted in

VARIABLES
    role,       \* users.is_admin, "none" without a row
    active,     \* users.is_active
    invited,    \* pending_invitations: the role promised
    accepted,   \*   and the ones with an accepted_at
    viewing,    \* impersonation_state: the target of an administrator, if any
    journal,    \* impersonation_events
    request,    \* what each open request has read
    tries, kept,    \* the attempts let through; the oldest the bucket holds
    wall        \* the clock

accountsVars == <<role, active, invited, accepted, viewing, journal, request, tries, kept, wall>>
limit == <<tries, kept, wall>>
people == <<role, active, invited, accepted>>
views == <<viewing, journal>>

Idle == [at |-> "idle", who |-> Seed, admin |-> FALSE, target |-> {}, locks |-> FALSE]

\* The users there are by now were invited, and accepted.
Init ==
    /\ accepted \in SUBSET (Emails \ {Seed}) /\ active = accepted \cup {Seed}
    /\ role \in [Emails -> {"none", "user", "admin"}] /\ role[Seed] = "admin"
    /\ \A e \in Emails \ {Seed} : role[e] # "none" <=> e \in accepted
    /\ invited = [role EXCEPT ![Seed] = "none"]
    /\ viewing = [e \in Emails |-> {}] /\ journal = <<>>
    /\ request = [s \in Slots |-> Idle]
    /\ tries = <<>> /\ kept = 1 /\ wall = 0

-----------------------------------------------------------------------------
(* Users. *)

\* An unknown email becomes a user by its invitation; others are refused.
Arrive(e) ==
    /\ role[e] = "none" /\ invited[e] # "none" /\ e \notin accepted
    /\ role' = [role EXCEPT ![e] = invited[e]] /\ active' = active \cup {e}
    /\ accepted' = accepted \cup {e}
    /\ UNCHANGED <<invited, views, request, limit>>

\* require_user: an active user's request, with the user as it was loaded.
Enter(s, e) ==
    /\ request[s] = Idle /\ role[e] # "none" /\ e \in active
    /\ request' = [request EXCEPT ![s] = [Idle EXCEPT !.at = "in", !.who = e,
                                                      !.admin = (role[e] = "admin")]]
    /\ UNCHANGED <<people, views, limit>>

\* require_admin looks at that.
Managing(s) == request[s].at = "in" /\ request[s].admin
Leave(s) == request' = [request EXCEPT ![s] = Idle]
Proceed(s, to, target, locks) ==
    request' = [request EXCEPT ![s] = [@ EXCEPT !.at = to, !.target = target, !.locks = locks]]

\* create_invitation refuses an email that has a user or an invitation, even an
\* accepted one.
Invite(s, e, as) ==
    /\ Managing(s) /\ Leave(s) /\ role[e] = "none" /\ invited[e] = "none"
    /\ invited' = [invited EXCEPT ![e] = as]
    /\ UNCHANGED <<role, active, accepted, views, limit>>

\* patch_user; an administrator demotes anyone but itself.
PatchUser(s, e, as, on) ==
    /\ Managing(s) /\ Leave(s) /\ role[e] # "none"
    /\ as = "user" => e # request[s].who
    /\ role' = [role EXCEPT ![e] = as]
    /\ active' = (IF on THEN active \cup {e} ELSE active \ {e})
    /\ UNCHANGED <<invited, accepted, views, limit>>

\* delete_user deactivates anyone but itself.
DeleteUser(s, e) ==
    /\ Managing(s) /\ Leave(s) /\ role[e] # "none" /\ e # request[s].who
    /\ active' = active \ {e}
    /\ UNCHANGED <<role, invited, accepted, views, limit>>

-----------------------------------------------------------------------------
(* Views. *)

Note(a, t, what) == journal' = Append(journal, [admin |-> a, target |-> t, action |-> what])
Room == Len(journal) < MaxEvents
\* A row that a request has deleted is locked until it commits.
Unlocked(a) == \A r \in Slots : request[r].who = a => ~request[r].locks

\* start_impersonation reads the target: active, and not an administrator.
ChooseTarget(s, t) ==
    /\ Managing(s) /\ t # request[s].who /\ role[t] = "user" /\ t \in active
    /\ Proceed(s, "chosen", {t}, FALSE)
    /\ UNCHANGED <<people, views, limit>>
\* The row and its event are one transaction.
MUT_StartView(s, t) ==      \* keeps a row that is there
    /\ request[s].at = "chosen" /\ t \in request[s].target /\ Room
    /\ Unlocked(request[s].who) /\ Leave(s)
    /\ viewing' = [viewing EXCEPT ![request[s].who] = IF @ = {} THEN {t} ELSE @]
    /\ Note(request[s].who, t, "start")
    /\ UNCHANGED <<people, limit>>
StartView(s, t) ==
    /\ request[s].at = "chosen" /\ t \in request[s].target /\ Room
    /\ Unlocked(request[s].who) /\ Leave(s)
    /\ viewing' = [viewing EXCEPT ![request[s].who] = {t}]
    /\ Note(request[s].who, t, "start")
    /\ UNCHANGED <<people, limit>>

\* stop_impersonation reads the target, deletes whatever row there is by then,
\* and labels its event with what it read.
FindView(s) ==
    /\ Managing(s) /\ viewing[request[s].who] # {}
    /\ Proceed(s, "found", viewing[request[s].who], FALSE)
    /\ UNCHANGED <<people, views, limit>>
ClearView(s) ==
    /\ request[s].at = "found" /\ Unlocked(request[s].who)
    /\ Proceed(s, "cleared", request[s].target, viewing[request[s].who] # {})
    /\ UNCHANGED <<people, views, limit>>
StopView(s, t) ==
    /\ request[s].at = "cleared" /\ t \in request[s].target /\ Room /\ Leave(s)
    /\ viewing' = (IF request[s].locks THEN [viewing EXCEPT ![request[s].who] = {}] ELSE viewing)
    /\ Note(request[s].who, t, "stop")
    /\ UNCHANGED <<people, limit>>

\* current_user_or_impersonated reads the row, and then the target, whose data it
\* shows if it is active.
Look(s) ==
    /\ Managing(s) /\ viewing[request[s].who] # {}
    /\ Proceed(s, "looking", viewing[request[s].who], FALSE)
    /\ UNCHANGED <<people, views, limit>>
PageView(s, t) ==
    /\ request[s].at = "looking" /\ t \in request[s].target /\ t \in active /\ Room /\ Leave(s)
    /\ Note(request[s].who, t, "page_view") /\ viewing' = viewing
    /\ UNCHANGED <<people, limit>>

\* Any request may end without another change: refused, failed or read only.
EndRequest(s) == request[s] # Idle /\ Leave(s) /\ UNCHANGED <<people, views, limit>>

-----------------------------------------------------------------------------
(* check_and_record, of one user's bucket. *)

MUT_Expired(i) == tries[i] <= wall - Span      \* an attempt too early
Expired(i) == tries[i] < wall - Span
Attempt ==
    /\ Len(tries) < MaxEvents
    /\ \E k \in kept..(Len(tries) + 1) :
           \* The expired hits at the front are dropped.
           /\ \A i \in kept..(k - 1) : Expired(i)
           /\ k \in DOMAIN tries => ~Expired(k)
           /\ kept' = k
           /\ tries' = (IF Len(tries) + 1 - k >= MaxHits THEN tries ELSE Append(tries, wall))
    /\ UNCHANGED <<people, views, request, wall>>
PassTime ==
    /\ wall < MaxTime /\ wall' = wall + 1
    /\ UNCHANGED <<people, views, request, tries, kept>>

Next ==
    \/ \E e \in Emails : Arrive(e)
    \/ \E s \in Slots, e \in Emails :
           \/ Enter(s, e) \/ DeleteUser(s, e)
           \/ ChooseTarget(s, e) \/ StartView(s, e) \/ StopView(s, e) \/ PageView(s, e)
           \/ \E as \in {"user", "admin"} :
                  Invite(s, e, as) \/ \E on \in BOOLEAN : PatchUser(s, e, as, on)
    \/ \E s \in Slots : FindView(s) \/ ClearView(s) \/ Look(s) \/ EndRequest(s)
    \/ Attempt \/ PassTime

Spec == Init /\ [][Next]_accountsVars

-----------------------------------------------------------------------------
OpenRequests ==
    [at : {"idle", "in", "chosen", "found", "cleared", "looking"}, who : Emails,
     admin : BOOLEAN, target : SUBSET Emails, locks : BOOLEAN]
TypeOK ==
    /\ role \in [Emails -> {"none", "user", "admin"}] /\ active \subseteq Emails
    /\ invited \in [Emails -> {"none", "user", "admin"}] /\ accepted \subseteq Emails
    /\ viewing \in [Emails -> SUBSET Emails] /\ request \in [Slots -> OpenRequests]
    /\ journal \in Seq([admin : Emails, target : Emails, action : {"start", "stop", "page_view"}])
    /\ tries \in Seq(Nat) /\ kept \in Nat \ {0} /\ wall \in Nat

Of(a, k) == journal[k].admin = a
Started(a, t, k) == journal[k] = [admin |-> a, target |-> t, action |-> "start"]
LastStart(a, t, k) ==
    Started(a, t, k) /\ \A j \in DOMAIN journal : j > k /\ Of(a, j) => journal[j].action # "start"
\* The journal tells who is viewed: it is the target of the administrator's last
\* start; and a view it has no stop for, since that start, goes on.
ViewIsJournaled ==
    \A a, t \in Emails :
        /\ viewing[a] = {t} => \E k \in DOMAIN journal : LastStart(a, t, k)
        /\ \A k \in DOMAIN journal :
               LastStart(a, t, k) =>
                   \/ viewing[a] = {t}
                   \/ \E j \in DOMAIN journal : j > k /\ Of(a, j) /\ journal[j].action = "stop"

\* Nobody is looked at whom the administrator has not begun to view.
ViewsWereStarted ==
    \A k \in DOMAIN journal :
        journal[k].action = "page_view" =>
            \E j \in 1..(k - 1) : Started(journal[k].admin, journal[k].target, j)

\* Whoever may enter was invited, but for the seed, and by then had accepted.
AdmittedWasInvited ==
    \A e \in Emails \ {Seed} : role[e] # "none" <=> e \in accepted

\* No more attempts than the limit in any span of time.
NeverOverTried ==
    \A i \in DOMAIN tries :
        i + MaxHits \in DOMAIN tries => tries[i + MaxHits] - tries[i] > Span
=============================================================================
