------------------------------- MODULE Access -------------------------------
(***************************************************************************)
(* Who may call which endpoint of the HTTP interface.  Each endpoint of the  *)
(* routers declares a guard (a FastAPI dependency); what the handler does is *)
(* modelled with its component.  A guard reads a token issued earlier and     *)
(* the account and project rows as they are now.                            *)
(*                                                                         *)
(* One account is followed, with the one credential its owner (or an         *)
(* administrator acting for them) holds.  An account that has a token has    *)
(* verified its e-mail address, and its role never changes.  The mark of an   *)
(* impersonation is in the token it is about only: a session opened through  *)
(* an editor launch or an SSO token does not carry it.  Services have shared  *)
(* secrets of their own, which no account is given.                         *)
(***************************************************************************)

CONSTANTS
    Projects,
    None

VARIABLES
    person,     \* the account: role, suspended or active, deleted or not
    owned,      \* its projects, without those in the trash
    token,      \* the credential held, as it was issued
    ticket      \* a launch ticket or an SSO token on its way, or None

vars == <<person, owned, token, ticket>>

------------------------------------------------------------------------------
(* The endpoints.                                                           *)

Reads(guard, names) == {[guard |-> guard, writes |-> FALSE, name |-> n] : n \in names}
Writes(guard, names) == {[guard |-> guard, writes |-> TRUE, name |-> n] : n \in names}

\* routers/admin_analytics.py
AdminAnalytics ==
         Reads("admin", {"get_analytics", "get_marketing_analytics",
                         "get_marketing_realtime"})
    \cup Writes("admin", {"test_ga4_connection"})

\* routers/admin_auth.py
AdminAuth ==
         Writes("anyone", {"admin_login"})
    \cup Writes("admin", {"admin_logout"})

\* routers/admin_billing.py: invoices and subscriptions
AdminInvoices ==
         Reads("admin", {"list_subscriptions", "list_invoices", "get_invoice",
                         "get_invoice_receipt"})
    \cup Writes("admin_write", {"force_downgrade", "refund_invoice"})

\* routers/admin_billing.py: manual payments, periods, coupons, tax
AdminFinance ==
         Writes("admin_write", {"manual_proof_upload", "create_manual_transaction",
                                "approve_manual_transaction", "reject_manual_transaction",
                                "create_period", "lock_period", "create_coupon",
                                "update_coupon"})
    \cup Reads("admin", {"list_periods", "list_coupons", "get_tax_config"})

\* routers/admin_dashboard.py
AdminDashboard ==
    Reads("admin", {"get_stats", "get_finance_overview", "get_revenue",
                    "get_revenue_this_month_invoices", "get_user_growth",
                    "get_recent_users"})

\* routers/admin_feedback.py
AdminFeedback ==
         Reads("admin", {"list_feedback", "feedback_summary", "export_feedback"})
    \cup Writes("admin_write", {"update_feedback"})

\* routers/admin_moderation.py
AdminModeration ==
         Reads("admin", {"list_content_reports", "get_content_report",
                         "list_user_moderation_actions"})
    \cup Writes("admin_write", {"uphold_content_report", "dismiss_content_report"})

\* routers/admin_ops.py: projects and jobs
AdminProjects ==
         Reads("admin", {"list_projects", "get_project", "list_bake_jobs", "get_bake_job"})
    \cup Writes("admin_write", {"delete_project", "requeue_bake_job", "cancel_bake_job"})

\* routers/admin_ops.py: exports, health, audit log
AdminSystem ==
         Reads("admin", {"list_exports", "system_health"})
    \cup Reads("admin_write", {"list_audit_logs"})

\* routers/admin_plans.py
AdminPlans ==
         Reads("admin", {"list_plans"})
    \cup Writes("admin_write", {"update_plan"})

\* routers/admin_reports.py
AdminReports ==
    Reads("admin", {"list_reports", "download_report"})

\* routers/admin_studio.py
AdminStudio ==
         Reads("admin", {"list_rules", "list_templates"})
    \cup Writes("admin_write", {"create_rule", "update_rule", "delete_rule",
                                "create_template", "approve_template", "reject_template"})

\* routers/admin_users.py
AdminUsers ==
         Reads("admin", {"list_users", "get_user_detail"})
    \cup Writes("admin_write", {"ban_user", "unban_user", "set_user_internal",
                                "create_staff", "grant_comp_plan", "impersonate_user",
                                "admin_reset_password"})

\* routers/api_cost.py: admin_router
ApiCostPages ==
         Reads("admin", {"api_cost_daily", "get_api_budget"})
    \cup Writes("admin_write", {"set_api_budget"})

\* main.py: the routers under /api/v1/admin
AdminArea ==
    AdminAnalytics \cup AdminAuth \cup AdminInvoices \cup AdminFinance \cup AdminDashboard \cup
    AdminFeedback \cup AdminModeration \cup AdminProjects \cup AdminSystem \cup AdminPlans \cup
    AdminReports \cup AdminStudio \cup AdminUsers \cup ApiCostPages

\* routers/api_cost.py: internal_router
ApiCostCalls ==
         Writes("service", {"record_api_call"})
    \cup Reads("service", {"scan_intake"})

\* routers/auth.py: accounts and passwords
SigningUp ==
    Writes("anyone", {"register", "verify_otp", "resend_otp", "login",
                      "verify_two_factor_login"})

\* routers/auth.py: Google
GoogleSignIn ==
         Reads("anyone", {"google_login", "google_callback"})
    \cup Writes("anyone", {"google_mobile_exchange", "google_desktop_exchange"})

\* routers/auth.py: sessions and recovery
SessionsAndPasswords ==
         Writes("anyone", {"refresh_token", "forgot_password", "reset_password"})
    \cup Writes("user", {"logout", "revoke_session", "revoke_all_sessions"})
    \cup Reads("user", {"list_sessions"})

\* routers/auth.py: editor launches and SSO
EditorLaunches ==
         Writes("user", {"create_editor_launch", "create_sso_token"})
    \cup Writes("anyone", {"claim_editor_launch", "exchange_editor_launch",
                           "create_desktop_session"})
    \cup Reads("editor", {"get_current_editor_session"})
    \cup Writes("service", {"verify_sso"})

\* routers/auth.py: restore
AccountRestore ==
    Writes("anyone", {"request_account_restore", "confirm_account_restore"})

\* routers/editor.py: designs
EditorDesigns ==
         Reads("editor", {"get_me", "get_project_context", "get_design"})
    \cup Writes("editor", {"save_project_design", "prepare_project", "bake_design"})

\* routers/editor.py: jobs, assets, exports; complete and fail ask for the claim token only
EditorJobs ==
         Reads("editor", {"get_job", "get_asset_content", "get_export_content"})
    \cup Writes("editor", {"claim_job", "export_design", "create_asset_upload_url",
                           "confirm_asset_upload"})
    \cup Writes("claim", {"complete_job", "fail_job"})

\* routers/exports.py
ExportPages ==
         Reads("user", {"list_export_history"})
    \cup Writes("user", {"create_export_download_url"})

\* routers/feedback.py
FeedbackPages ==
         Reads("user", {"feedback_eligibility", "my_feedback"})
    \cup Writes("user", {"submit_feedback"})

\* routers/internal_quota.py
InternalQuota ==
         Writes("service", {"consume_scan"})
    \cup Reads("service", {"get_scan_balance"})

\* routers/mobile.py
MobileScans ==
         Writes("user", {"bootstrap_scan"})
    \cup Writes("compute", {"claim_compute_grant", "create_output_upload",
                            "confirm_output"})

\* routers/moderation.py
ModerationPages ==
         Writes("anyone", {"submit_content_report"})
    \cup Reads("user", {"my_moderation_status"})

\* routers/project_assets.py
ProjectAssets ==
         Writes("user", {"create_upload_url", "confirm_upload", "delete_asset"})
    \cup Reads("user", {"list_assets"})

\* routers/projects.py: projects and trash; the design and bake routes of the scan service
ProjectPages ==
         Reads("user", {"list_projects", "list_trash", "get_project"})
    \cup Writes("user", {"create_project", "update_project", "delete_project",
                         "restore_project", "permanently_delete_project"})
    \cup Writes("service", {"save_design", "trigger_bake"})

\* routers/projects.py: bakes and exports
ProjectBakes ==
         Reads("user", {"get_bake_status", "list_exports", "get_preview_image",
                        "get_watermark_policy"})
    \cup Writes("user", {"retry_bake", "cancel_bake"})

\* routers/public_artisan.py
PublicArtisan ==
         Reads("anyone", {"view_link"})
    \cup Writes("anyone", {"download"})

\* routers/studio.py
StudioPages ==
         Reads("user", {"list_versions", "get_version", "list_templates",
                        "list_artisan_links", "download_reference_pack"})
    \cup Writes("user", {"restore_version", "apply_template", "create_artisan_link",
                         "revoke_artisan_link", "renew_artisan_link"})

\* routers/subscriptions.py: plans and quotes
PlanPages ==
         Reads("anyone", {"list_plans", "list_payment_gateways"})
    \cup Reads("user", {"get_subscription", "list_invoices", "get_invoice_by_order"})
    \cup Writes("user", {"quote_checkout", "quote_credits"})

\* routers/subscriptions.py: payments, invoices, Credits
Purchases ==
         Writes("owner", {"create_checkout", "redeem_code", "create_credit_checkout"})
    \cup Writes("user", {"cancel_subscription", "preview_coupon"})
    \cup Reads("user", {"get_invoice", "get_receipt", "get_credit_balance",
                        "get_credit_ledger"})

\* routers/users.py: profile and account
Profile ==
         Reads("user", {"get_me", "get_usage", "get_privacy_settings", "list_consents"})
    \cup Writes("user", {"update_me", "create_avatar_upload", "delete_avatar",
                         "update_privacy_settings", "accept_legal_documents",
                         "record_consent"})
    \cup Writes("owner", {"change_password", "delete_account"})

\* routers/users.py: security, data, impersonation
SecuritySettings ==
         Reads("user", {"get_login_history", "list_data_imports"})
    \cup Writes("user", {"export_account_data", "create_data_import_upload_url",
                         "confirm_data_import"})
    \cup Reads("owner", {"get_two_factor_status"})
    \cup Writes("owner", {"set_recovery_email", "verify_recovery_email", "setup_two_factor",
                          "enable_two_factor", "disable_two_factor"})
    \cup Writes("impersonator", {"end_impersonation"})

\* routers/webhooks.py
Webhooks ==
    Writes("anyone", {"payos_webhook", "momo_ipn"})

Endpoints ==
    AdminArea \cup ApiCostCalls \cup SigningUp \cup GoogleSignIn \cup SessionsAndPasswords \cup
    EditorLaunches \cup AccountRestore \cup EditorDesigns \cup EditorJobs \cup ExportPages \cup
    FeedbackPages \cup InternalQuota \cup MobileScans \cup ModerationPages \cup ProjectAssets
    \cup ProjectPages \cup ProjectBakes \cup PublicArtisan \cup StudioPages \cup PlanPages \cup
    Purchases \cup Profile \cup SecuritySettings \cup Webhooks

------------------------------------------------------------------------------

Roles == {"user", "staff", "admin"}

Person == [role : Roles, suspended : BOOLEAN, deleted : BOOLEAN]

NoToken == [kind |-> "none"]
AccessToken(role, imp) == [kind |-> "access", role |-> role, imp |-> imp]
EditorToken(p) == [kind |-> "editor", project |-> p]
ClaimToken(p) == [kind |-> "claim", project |-> p]

Tokens ==
    {NoToken}
    \cup {AccessToken(role, imp) : role \in Roles, imp \in BOOLEAN}
    \cup {EditorToken(p) : p \in Projects}
    \cup {ClaimToken(p) : p \in Projects}

\* user_repo.get_by_id leaves out deleted accounts.
Active == ~person.deleted /\ ~person.suspended

AuthenticatedByToken(roles) == token.kind = "access" /\ token.role \in roles

\* _authenticate_access_token: the role as issued, the account as it is.
Authenticated(roles) ==
    /\ token.kind = "access" /\ token.role \in roles
    /\ Active

\* authenticate_editor_session
EditorSession == token.kind = "editor" /\ Active /\ token.project \in owned

User == Authenticated({"user"})

\* Whether the credential opens endpoint e, on project p where it is about one.
Admitted(e, p) ==
    \/ e.guard = "anyone"
    \/ e.guard = "user" /\ User
    \/ e.guard = "owner" /\ User /\ ~token.imp
    \/ e.guard = "impersonator" /\ User /\ token.imp
    \/ e.guard = "admin" /\ Authenticated({"admin", "staff"})
    \/ e.guard = "admin_write" /\ Authenticated({"admin", "staff"}) /\ person.role = "admin"
    \/ e.guard = "editor" /\ EditorSession /\ p = token.project
    \/ e.guard = "claim" /\ token.kind = "claim" /\ p = token.project

Init ==
    /\ person \in [role : Roles, suspended : {FALSE}, deleted : {FALSE}]
    /\ owned = Projects
    /\ token = NoToken
    /\ ticket = None

\* login_user, handle_google_callback, login_admin
SignIn ==
    /\ Active
    /\ token' = AccessToken(person.role, FALSE)
    /\ UNCHANGED <<person, owned, ticket>>

\* start_impersonation, by an administrator with two-factor sign-in.
Impersonate ==
    /\ person.role = "user" /\ Active
    /\ token' = AccessToken("user", TRUE)
    /\ UNCHANGED <<person, owned, ticket>>

\* create_editor_launch, create_editor_sso
CreateTicket(p) ==
    /\ User /\ p \in owned
    /\ ticket' = p
    /\ UNCHANGED <<person, owned, token>>

\* exchange_editor_launch, exchange_editor_sso, verify_editor_sso: the ticket is used up,
\* and opens a session if account and project still allow it.
Exchange ==
    /\ ticket # None
    /\ ticket' = None
    /\ \/ /\ Active /\ ticket \in owned
          /\ token' \in {EditorToken(ticket), AccessToken(person.role, FALSE)}
       \/ /\ ~(Active /\ ticket \in owned)
          /\ UNCHANGED token
    /\ UNCHANGED <<person, owned>>

\* claim_job: from here on the claim token reports on the job.
ClaimJob ==
    /\ EditorSession
    /\ token' = ClaimToken(token.project)
    /\ UNCHANGED <<person, owned, ticket>>

\* The token expires, or the lease of the claim runs out.
TokenExpires ==
    /\ token # NoToken
    /\ token' = NoToken
    /\ UNCHANGED <<person, owned, ticket>>

TicketExpires ==
    /\ ticket # None
    /\ ticket' = None
    /\ UNCHANGED <<person, owned, token>>

\* ban_user, unban_user
SetStatus(suspended) ==
    /\ person.role = "user" /\ ~person.deleted
    /\ person' = [person EXCEPT !.suspended = suspended]
    /\ UNCHANGED <<owned, token, ticket>>

\* delete_account, with a token of the owner.
DeleteAccount ==
    /\ User /\ ~token.imp
    /\ person' = [person EXCEPT !.deleted = TRUE]
    /\ UNCHANGED <<owned, token, ticket>>

\* confirm_account_restore asks for a code, not for a token.
RestoreAccount ==
    /\ person.deleted
    /\ person' = [person EXCEPT !.deleted = FALSE]
    /\ UNCHANGED <<owned, token, ticket>>

\* delete_project and restore_project of its owner.
TrashOrRestore(p) ==
    /\ User
    /\ owned' = IF p \in owned THEN owned \ {p} ELSE owned \cup {p}
    /\ UNCHANGED <<person, token, ticket>>

\* admin_delete_project
AdminTrashes(p) ==
    /\ p \in owned
    /\ owned' = owned \ {p}
    /\ UNCHANGED <<person, token, ticket>>

Next ==
    \/ SignIn \/ Impersonate \/ Exchange \/ ClaimJob \/ TokenExpires \/ TicketExpires
    \/ \E suspended \in BOOLEAN : SetStatus(suspended)
    \/ DeleteAccount \/ RestoreAccount
    \/ \E p \in Projects : CreateTicket(p) \/ TrashOrRestore(p) \/ AdminTrashes(p)

Spec == Init /\ [][Next]_vars

------------------------------------------------------------------------------
(* Properties.                                                              *)

TypeOK ==
    /\ person \in Person
    /\ owned \subseteq Projects
    /\ token \in Tokens
    /\ ticket \in Projects \cup {None}

\* What BR-80 keeps from an administrator who acts for a customer.
Personal ==
    {"create_checkout", "redeem_code", "create_credit_checkout", "change_password",
     "delete_account", "set_recovery_email", "verify_recovery_email", "setup_two_factor",
     "enable_two_factor", "disable_two_factor"}

\* The few endpoints of the admin area that change something for staff.
ForStaff == {"admin_login", "admin_logout", "test_ga4_connection"}

\* Over all endpoints, whatever happened to the account after its token was issued: a
\* suspended or deleted account can only do what anyone may, or report on the job it claimed;
\* staff change nothing in the admin area; a customer's token opens nothing there; an editor
\* token opens one project, and only while it is owned; an administrator acting for a customer
\* neither pays nor touches the account's credentials.
AccessJustified ==
    token # NoToken => \A e \in Endpoints, p \in Projects :
        e.guard # "anyone" /\ Admitted(e, p) =>
            /\ Active \/ e.name \in {"complete_job", "fail_job"}
            /\ e \in AdminArea => /\ person.role # "user"
                                  /\ e.writes => person.role = "admin" \/ e.name \in ForStaff
            /\ token.kind = "editor" => p = token.project /\ p \in owned
            /\ token.kind = "access" /\ token.imp => e.name \notin Personal
------------------------------------------------------------------------------
(* Why it holds.                                                            *)

\* An access token carries the role of its account, and only customers are impersonated.
IInv ==
    /\ TypeOK
    /\ token.kind = "access" => token.role = person.role /\ (token.imp => token.role = "user")
=============================================================================
