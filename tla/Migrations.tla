----------------------------- MODULE Migrations -----------------------------
(***************************************************************************)
(* The migrations of the database, applied and undone one at a time on a    *)
(* database in use.                                                         *)
(*                                                                         *)
(* A revision changes tables and columns, converts rows, and replaces CHECK *)
(* constraints; it commits as a whole or, when a statement fails, not at    *)
(* all.  Types, defaults and indexes are left out.  A constraint is the set *)
(* of values it admits, kept for the columns whose values a revision        *)
(* restricts or converts.  Statements treat every row alike, so one value   *)
(* in one column stands for the data.                                       *)
(***************************************************************************)
EXTENDS Models, Naturals, Sequences, TLC

CONSTANT None

VARIABLES
    rev,        \* how many revisions are applied
    tables,     \* the columns of every table
    checks,     \* the values admitted, by column
    row         \* a row: one of its columns, and the value there

vars == <<rev, tables, checks, row>>

------------------------------------------------------------------------------
(* The columns whose values matter.                                          *)

\* "case_clash": a name that differs from another only in case; "null": no plan.
Username == <<"users", "username">>
SubscriptionStatus == <<"subscriptions", "status">>
SubscriptionTier == <<"subscriptions", "tier">>
SubscriptionPlan == <<"subscriptions", "plan_id">>
InvoiceStatus == <<"invoices", "status">>
PaymentMethod == <<"invoices", "payment_method">>
BakeStatus == <<"bake_jobs", "status">>
BakeKind == <<"bake_jobs", "kind">>
AssetType == <<"project_assets", "asset_type">>
AssetStatus == <<"project_assets", "status">>
CouponType == <<"coupons", "discount_type">>
ConsentType == <<"consent_records", "type">>

(* A script is its statements by kind; what it has none of is left out.      *)

Nothing == <<>>
Create(columns) == "create" :> columns
DropTables(names) == "drop_tables" :> names
Add(columns) == "add" :> columns
Drop(columns) == "drop" :> columns
Rename(pairs) == "rename" :> pairs
Update(conversions) == "update" :> conversions
Delete(values) == "delete" :> values
Check(values) == "check" :> values

\* What is created if it is missing, and dropped if it is there.
Ensure(columns) == "ensure" :> columns
Discard(columns) == "discard" :> columns
DiscardTables(names) == "discard_tables" :> names

------------------------------------------------------------------------------
(* The revisions, in the order of their down_revision links.                 *)

M001 == \* create users
    [up |-> Create([users |-> {"id", "account_code", "google_id", "email",
                "password_hash", "first_name", "last_name", "username", "avatar_url",
                "phone_number", "bio", "language", "preferred_styles", "status", "created_at",
                "updated_at", "deleted_at"}]) @@
            Check(Username :> {"distinct", "case_clash"}),
     down |-> DropTables({"users"})]

M002 == \* create refresh tokens
    [up |-> Create([refresh_tokens |-> {"id", "user_id", "token_hash", "expires_at",
                "revoked_at", "user_agent", "created_at"}]),
     down |-> DropTables({"refresh_tokens"})]

M003 == \* create plans
    [up |-> Create([plans |-> {"id", "tier", "billing_cycle", "price_vnd", "max_projects",
                "max_exports_per_month", "allowed_export_formats", "bake_priority",
                "is_active", "created_at"}]),
     down |-> DropTables({"plans"})]

M004 == \* create subscriptions
    [up |-> Create([subscriptions |-> {"id", "user_id", "plan_id", "tier", "status",
                "billing_cycle", "started_at", "expires_at", "last_invoice_id", "created_at",
                "updated_at"}]) @@
            Check(SubscriptionStatus :> {"active", "cancelled", "expired"} @@
                SubscriptionTier :> {"free", "creator", "pro"} @@ SubscriptionPlan :> {"plan",
                "null"}),
     down |-> DropTables({"subscriptions"})]

M005 == \* create monthly usage
    [up |-> Create([monthly_usage |-> {"id", "user_id", "year_month", "projects_count",
                "exports_count", "ai_credits_used", "updated_at"}]),
     down |-> DropTables({"monthly_usage"})]

M006 == \* create invoices
    [up |-> Create([invoices |-> {"id", "user_id", "plan_id", "plan_tier",
                "billing_cycle", "amount_vnd", "payment_method", "gateway_transaction_id",
                "gateway_payment_url", "gateway_metadata", "status", "paid_at", "created_at",
                "updated_at"}]) @@
            Check(InvoiceStatus :> {"pending", "paid", "failed", "refunded"} @@
                PaymentMethod :> {"payos", "vnpay", "momo"}),
     down |-> DropTables({"invoices"})]

M007 == \* create projects
    [up |-> Create([projects |-> {"id", "user_id", "name", "description", "status",
                "canonical_model_asset_id", "design_config", "thumbnail_url", "created_at",
                "updated_at", "deleted_at"}]),
     down |-> DropTables({"projects"})]

M008 == \* create project assets
    [up |-> Create([project_assets |-> {"id", "project_id", "user_id", "asset_type",
                "original_filename", "file_path", "file_size_bytes", "mime_type", "status",
                "metadata", "created_at"}]) @@
            Check(AssetType :> {"source_model", "sticker", "texture",
                "reference_image"} @@ AssetStatus :> {"uploading", "processing", "ready",
                "failed"}),
     down |-> DropTables({"project_assets"})]

M009 == \* create bake jobs
    [up |-> Create([bake_jobs |-> {"id", "project_id", "design_config_snapshot", "status",
                "priority", "result_glb_path", "result_obj_path", "result_zip_path",
                "error_message", "worker_id", "queued_at", "started_at", "completed_at"}]) @@
            Check(BakeStatus :> {"queued", "processing", "completed", "failed"}),
     down |-> DropTables({"bake_jobs"})]

M010 == \* create export records
    [up |-> Create([export_records |-> {"id", "project_id", "bake_job_id", "user_id",
                "format", "file_path", "file_size_bytes", "download_count", "created_at"}]),
     down |-> DropTables({"export_records"})]

M011 == \* normalize schema
    [up |-> Rename([users |-> <<"avatar_url", "avatar_path">>,
                projects |-> <<"thumbnail_url", "thumbnail_path">>]) @@
            Drop([subscriptions |-> {"billing_cycle"}, bake_jobs |-> {"result_glb_path",
                "result_obj_path", "result_zip_path"}]) @@
            Update({<<SubscriptionPlan, {"null"}, "plan">>}) @@
            Check(SubscriptionStatus :> {"active", "cancelled", "expired"} @@
                SubscriptionTier :> {"free", "creator_monthly", "creator_yearly",
                "pro_monthly", "pro_yearly"} @@ SubscriptionPlan :> {"plan"} @@
                InvoiceStatus :> {"pending", "paid", "failed", "refunded"} @@
                PaymentMethod :> {"vnpay", "momo", "bank_transfer"}),
     down |-> Rename([projects |-> <<"thumbnail_path", "thumbnail_url">>,
                  users |-> <<"avatar_path", "avatar_url">>]) @@
              Add([bake_jobs |-> {"result_glb_path", "result_obj_path",
                  "result_zip_path"}, subscriptions |-> {"billing_cycle"}]) @@
              Check(SubscriptionStatus :> {"active", "cancelled", "expired"} @@
                  SubscriptionTier :> {"free", "creator", "pro"} @@
                  SubscriptionPlan :> {"plan", "null"} @@ InvoiceStatus :> {"pending", "paid",
                  "failed", "refunded"} @@ PaymentMethod :> {"payos", "vnpay", "momo"})]

M012 == \* add is verified and role to users
    [up |-> Add([users |-> {"is_verified", "role"}]),
     down |-> Drop([users |-> {"role", "is_verified"}])]

M013 == \* add polar billing columns
    [up |-> Add([plans |-> {"polar_product_id"}, subscriptions |->
                {"polar_subscription_id", "polar_customer_id", "cancel_at_period_end"}]) @@
            Check(PaymentMethod :> {"vnpay", "momo", "bank_transfer", "polar"}),
     down |-> Drop([subscriptions |-> {"cancel_at_period_end", "polar_customer_id",
                  "polar_subscription_id"}, plans |-> {"polar_product_id"}]) @@
              Check(PaymentMethod :> {"vnpay", "momo", "bank_transfer"})]

M014 == \* create audit logs
    [up |-> Create([audit_logs |-> {"id", "actor_id", "actor_role", "action",
                "target_type", "target_id", "payload", "created_at"}]) @@
            Check(BakeStatus :> {"queued", "processing", "completed", "failed",
                "cancelled"}),
     down |-> DropTables({"audit_logs"}) @@
              Check(BakeStatus :> {"queued", "processing", "completed", "failed"})]

M015 == \* secure login sessions
    [up |-> Add([refresh_tokens |-> {"ip_address", "last_used_at"}]),
     down |-> Drop([refresh_tokens |-> {"last_used_at", "ip_address"}])]

M016 == \* add design revisions
    [up |-> Create([design_revisions |-> {"id", "project_id", "revision", "design_config",
                "author_user_id", "client", "created_at"}]) @@
            Add([projects |-> {"current_design_revision"}]),
     down |-> DropTables({"design_revisions"}) @@
              Drop([projects |-> {"current_design_revision"}])]

M016b == \* sync plans with landing pricing
    [up |-> Nothing,
     down |-> Nothing]

M017 == \* rebuild payment gateway
    [up |-> Create([refunds |-> {"id", "invoice_id", "amount_vnd", "reason", "created_by",
                "created_at", "updated_at"}]) @@
            Drop([plans |-> {"polar_product_id"}, subscriptions |->
                {"polar_subscription_id", "polar_customer_id"}]) @@
            Add([plans |-> {"max_ai_credits_per_cycle", "max_scans_per_cycle",
                "max_layers_per_zone", "max_layers_per_project", "allow_draw_artwork"},
                invoices |-> {"order_code", "listed_price_vnd", "discount_vnd",
                "payment_reference"}]) @@
            Update({<<SubscriptionTier, {"creator_monthly"}, "basic_monthly">>,
                <<SubscriptionTier, {"creator_yearly"}, "basic_yearly">>, <<PaymentMethod,
                {"polar"}, "manual">>}) @@
            Check(SubscriptionTier :> {"free", "basic_monthly", "basic_yearly",
                "pro_monthly", "pro_yearly"} @@ PaymentMethod :> {"payos", "momo", "manual"}),
     down |-> DropTables({"refunds"}) @@
              Drop([invoices |-> {"payment_reference", "discount_vnd", "listed_price_vnd",
                  "order_code"}, plans |-> {"allow_draw_artwork", "max_layers_per_project",
                  "max_layers_per_zone", "max_scans_per_cycle", "max_ai_credits_per_cycle"}]) @@
              Add([subscriptions |-> {"polar_customer_id", "polar_subscription_id"},
                  plans |-> {"polar_product_id"}]) @@
              Update({<<SubscriptionTier, {"basic_monthly"}, "creator_monthly">>,
                  <<SubscriptionTier, {"basic_yearly"}, "creator_yearly">>}) @@
              Check(SubscriptionTier :> {"free", "creator_monthly", "creator_yearly",
                  "pro_monthly", "pro_yearly"} @@ PaymentMethod :> {"vnpay", "momo",
                  "bank_transfer", "polar"})]

M018 == \* subscription grace and quota anchor
    [up |-> Drop([monthly_usage |-> {"year_month"}]) @@
            Add([subscriptions |-> {"grace_until", "current_period_start"}, projects |->
                {"is_locked"}, monthly_usage |-> {"period_start"}]) @@
            Check(SubscriptionStatus :> {"active", "grace", "cancelled", "expired"}),
     down |-> Drop([monthly_usage |-> {"period_start"}, projects |-> {"is_locked"},
                  subscriptions |-> {"current_period_start", "grace_until"}]) @@
              Add([monthly_usage |-> {"year_month"}]) @@
              Check(SubscriptionStatus :> {"active", "cancelled", "expired"})]

M019 == \* account security
    [up |-> Create([consent_records |-> {"id", "user_id", "type", "doc_version",
                "channel", "revoked_at", "created_at", "updated_at"}, login_history |-> {"id",
                "user_id", "email_attempted", "success", "ip_address", "user_agent",
                "created_at"}, recovery_codes |-> {"id", "user_id", "code_hash", "used_at",
                "created_at"}]) @@
            Add([users |-> {"is_internal", "is_profile_public", "show_designs_publicly",
                "is_searchable", "allow_analytics", "allow_ads_personalization",
                "username_changed_at", "two_factor_enabled", "two_factor_method",
                "totp_secret", "recovery_email", "recovery_email_verified",
                "acquisition_channel", "utm_source", "utm_campaign", "referral_code"}]) @@
            Check(Username :> {"distinct"} @@ ConsentType :> {"tos", "privacy_policy",
                "age_confirmation", "marketing_content", "academic_report",
                "cookie_analytics"}),
     down |-> DropTables({"recovery_codes", "login_history", "consent_records"}) @@
              Drop([users |-> {"referral_code", "utm_campaign", "utm_source",
                  "acquisition_channel", "recovery_email_verified", "recovery_email",
                  "totp_secret", "two_factor_method", "two_factor_enabled",
                  "username_changed_at", "allow_ads_personalization", "allow_analytics",
                  "is_searchable", "show_designs_publicly", "is_profile_public",
                  "is_internal"}]) @@
              Check(Username :> {"distinct", "case_clash"})]

M020 == \* finance receipts coupons periods
    [up |-> Create([coupons |-> {"id", "code", "discount_type", "value", "plan_tiers",
                "first_payment_only", "max_uses", "used_count", "valid_from", "valid_until",
                "is_active", "created_at", "updated_at"}, coupon_redemptions |-> {"id",
                "coupon_id", "user_id", "invoice_id", "created_at"}, reporting_periods |->
                {"id", "name", "start_date", "end_date", "status", "locked_by", "locked_at",
                "created_at", "updated_at"}]) @@
            Add([invoices |-> {"receipt_number", "receipt_path", "receipt_snapshot",
                "is_upgrade", "coupon_code", "is_manual", "proof_path", "collected_by",
                "manual_reason", "created_by", "approved_by"}, subscriptions |-> {"is_comp"}]) @@
            Check(InvoiceStatus :> {"pending", "awaiting_approval", "paid", "failed",
                "cancelled", "refunded"} @@ CouponType :> {"percent", "fixed", "fixed_price"}),
     down |-> DropTables({"reporting_periods", "coupon_redemptions", "coupons"}) @@
              Drop([subscriptions |-> {"is_comp"}, invoices |-> {"approved_by",
                  "created_by", "manual_reason", "collected_by", "proof_path", "is_manual",
                  "coupon_code", "is_upgrade", "receipt_snapshot", "receipt_path",
                  "receipt_number"}]) @@
              Update({<<InvoiceStatus, {"awaiting_approval", "cancelled"}, "failed">>}) @@
              Check(InvoiceStatus :> {"pending", "paid", "failed", "refunded"})]

M021 == \* studio versions guardrail templates artisan
    [up |-> Create([design_versions |-> {"id", "project_id", "version_no",
                "design_config", "thumbnail_path", "is_pinned", "export_bake_job_id",
                "created_at"}, guardrail_rules |-> {"id", "kind", "term", "is_active",
                "created_at", "updated_at"}, design_templates |-> {"id", "name",
                "description", "category", "design_config", "thumbnail_path", "layer_count",
                "status", "created_by", "use_count", "created_at", "updated_at"},
                artisan_links |-> {"id", "project_id", "user_id", "export_record_id",
                "token_hash", "expires_at", "max_downloads", "download_count", "revoked_at",
                "created_at", "updated_at"}]) @@
            Add([plans |-> {"max_versions_per_project"}]),
     down |-> DropTables({"artisan_links", "design_templates", "guardrail_rules",
                  "design_versions"}) @@
              Drop([plans |-> {"max_versions_per_project"}])]

M022 == \* feedback
    [up |-> Create([feedbacks |-> {"id", "user_id", "rating", "marketing_group",
                "message", "is_internal", "status", "changed_what", "reviewed_by",
                "reviewed_at", "created_at", "updated_at"}]),
     down |-> DropTables({"feedbacks"})]

M023Empty == [up |-> Nothing, down |-> Nothing]

M023 == \* ensure design revisions
    [up |-> Ensure([design_revisions |-> {"id", "project_id", "revision", "design_config",
                "author_user_id", "client", "created_at"}, projects |->
                {"current_design_revision"}]),
     down |-> Nothing]

M024 == \* credits and vat
    [up |-> Ensure([scan_credits |-> {"id", "user_id", "invoice_id", "purchased_at",
                "expires_at", "purchase_cycle_start", "price_vnd", "status", "consumed_at",
                "consumed_ref", "created_at", "updated_at"}, monthly_usage |->
                {"scans_used"}]),
     down |-> DiscardTables({"scan_credits"}) @@
              Discard([monthly_usage |-> {"scans_used"}])]

M025 == \* data import and watermark
    [up |-> Ensure([data_imports |-> {"id", "user_id", "storage_path", "source_filename",
                "file_size_bytes", "checksum", "status", "rejected_reason",
                "projects_imported", "created_at", "completed_at"}, export_records |->
                {"is_watermarked"}]),
     down |-> DiscardTables({"data_imports"}) @@
              Discard([export_records |-> {"is_watermarked"}])]

M026 == \* moderation and api cost
    [up |-> Ensure([content_reports |-> {"id", "project_id", "template_id",
                "reported_user_id", "reporter_email", "reporter_name", "reason", "details",
                "evidence_url", "status", "resolution_note", "reviewed_by", "reviewed_at",
                "created_at", "updated_at"}, moderation_actions |-> {"id", "user_id",
                "report_id", "level", "action", "reason", "restricted_until", "created_by",
                "created_at"}, api_cost_entries |-> {"id", "user_id", "provider", "operation",
                "status", "cost_vnd", "reference", "occurred_on", "occurred_at",
                "created_at"}, api_budget_periods |-> {"id", "period_month", "budget_vnd",
                "warned_at", "suspended_at", "created_at", "updated_at"}]),
     down |-> DiscardTables({"moderation_actions", "content_reports", "api_cost_entries",
                  "api_budget_periods"})]

M027 == \* drop coupon first payment only
    [up |-> Drop([coupons |-> {"first_payment_only"}]),
     down |-> Add([coupons |-> {"first_payment_only"}])]

M028 == \* client executed jobs
    [up |-> Add([bake_jobs |-> {"kind", "source_asset_id", "claim_id", "claim_token_hash",
                "claim_expires_at", "issued_outputs", "crop_box", "result"},
                project_assets |-> {"derived_from_asset_id"}]) @@
            Update({<<BakeStatus, {"queued", "processing"}, "failed">>}) @@
            Check(BakeStatus :> {"awaiting_client", "claimed", "completed", "failed",
                "cancelled"} @@ BakeKind :> {"bake", "prepare"} @@
                AssetStatus :> {"uploading", "processing", "ready", "raw", "failed"}),
     down |-> Drop([project_assets |-> {"derived_from_asset_id"}, bake_jobs |-> {"result",
                  "crop_box", "issued_outputs", "claim_expires_at", "claim_token_hash",
                  "claim_id", "source_asset_id", "kind"}]) @@
              Update({<<AssetStatus, {"raw"}, "ready">>, <<BakeStatus, {"awaiting_client",
                  "claimed"}, "failed">>}) @@
              Delete(BakeKind :> {"prepare"}) @@
              Check(BakeStatus :> {"queued", "processing", "completed", "failed",
                  "cancelled"} @@ AssetStatus :> {"uploading", "processing", "ready",
                  "failed"})]

M029Keeping ==
    [up |-> Check(AssetType :> {"source_model", "sticker", "texture", "reference_image",
                "thumbnail"}),
     down |-> Check(AssetType :> {"source_model", "sticker", "texture",
                  "reference_image"})]

M029 == \* project thumbnail asset
    [up |-> Check(AssetType :> {"source_model", "sticker", "texture", "reference_image",
                "thumbnail"}),
     down |-> Delete(AssetType :> {"thumbnail"}) @@
              Check(AssetType :> {"source_model", "sticker", "texture",
                  "reference_image"})]

M030 == \* user designer profile
    [up |-> Add([users |-> {"designer_role", "studio_name", "studio_location",
                "instagram_handle", "behance_username", "tiktok_handle"}]),
     down |-> Drop([users |-> {"tiktok_handle", "behance_username", "instagram_handle",
                  "studio_location", "studio_name", "designer_role"}])]

M031 == \* reset unpublished legal consents
    [up |-> Delete(ConsentType :> {"age_confirmation", "tos", "privacy_policy"}),
     down |-> Nothing]

M032 == \* user acquisition attribution
    [up |-> Create([user_attributions |-> {"id", "user_id", "utm_source", "utm_medium",
                "utm_campaign", "utm_term", "utm_content", "fbclid", "ttclid", "gclid",
                "initial_referrer", "landing_page", "created_at", "updated_at"}]),
     down |-> DropTables({"user_attributions"})]

M033 == \* user first studio save
    [up |-> Add([users |-> {"first_studio_save_at"}]),
     down |-> Drop([users |-> {"first_studio_save_at"}])]

M034 == \* coupon grant plan type
    [up |-> Check(CouponType :> {"percent", "fixed", "fixed_price", "grant_plan"}),
     down |-> Delete(CouponType :> {"grant_plan"}) @@
              Check(CouponType :> {"percent", "fixed", "fixed_price"})]

Chain ==
    <<M001, M002, M003, M004, M005, M006, M007, M008, M009, M010, M011, M012, M013, M014,
      M015, M016, M016b, M017, M018, M019, M020, M021, M022, M023, M024, M025, M026,
      M027, M028, M029, M030, M031, M032, M033, M034>>

------------------------------------------------------------------------------
(* Running a script.                                                         *)

PartOf(s, kind) == IF kind \in DOMAIN s THEN s[kind] ELSE <<>>
NamesIn(s, kind) == IF kind \in DOMAIN s THEN s[kind] ELSE {}
At(f, x) == IF x \in DOMAIN f THEN f[x] ELSE {}

\* The columns of table t of schema db when s has run.
Columns(s, db, t) ==
    LET pair == IF t \in DOMAIN PartOf(s, "rename") THEN s["rename"][t] ELSE <<>>
        gone == At(PartOf(s, "drop"), t) \cup At(PartOf(s, "discard"), t)
                  \cup {pair[i] : i \in DOMAIN pair \ {2}}
        come == At(PartOf(s, "add"), t) \cup At(PartOf(s, "ensure"), t)
                  \cup {pair[i] : i \in DOMAIN pair \ {1}}
    IN  (At(db, t) \ gone) \cup come

Altered(s, db) ==
    LET kept == (DOMAIN db \cup DOMAIN PartOf(s, "ensure"))
                  \ (NamesIn(s, "drop_tables") \cup NamesIn(s, "discard_tables"))
    IN  PartOf(s, "create") @@ [t \in kept |-> Columns(s, db, t)]

\* The statements find the tables and columns they name, and none in their way.
Fits(s, db) ==
    /\ DOMAIN PartOf(s, "create") \cap DOMAIN db = {}
    /\ NamesIn(s, "drop_tables") \subseteq DOMAIN db
    /\ \A t \in DOMAIN PartOf(s, "drop") : s["drop"][t] \subseteq At(db, t)
    /\ \A t \in DOMAIN PartOf(s, "add") :
          t \in DOMAIN db /\ s["add"][t] \cap db[t] = {}
    /\ \A t \in DOMAIN PartOf(s, "rename") : s["rename"][t][1] \in At(db, t)

\* A constraint goes with its column.
Constraints(s) ==
    LET all == PartOf(s, "check") @@ checks
    IN  [on \in {c \in DOMAIN all : c[2] \in At(Altered(s, tables), c[1])} |-> all[on]]

\* The row when s has run: None when it, its column or its table is gone.
Converted(s) ==
    LET hits == {u \in NamesIn(s, "update") : u[1] = row.on /\ row.value \in u[2]}
    IN  IF \/ row = None
           \/ row.value \in At(PartOf(s, "delete"), row.on)
           \/ row.on[2] \notin At(Altered(s, tables), row.on[1])
        THEN None
        ELSE IF hits = {} THEN row
        ELSE [row EXCEPT !.value = (CHOOSE u \in hits : TRUE)[3]]

\* Every row left satisfies the constraints.
Applies(s) ==
    /\ Fits(s, tables)
    /\ Converted(s) # None => Converted(s).value \in Constraints(s)[Converted(s).on]

Run(s) ==
    /\ Applies(s)
    /\ tables' = Altered(s, tables)
    /\ checks' = Constraints(s)
    /\ row' = Converted(s)

------------------------------------------------------------------------------
(* The schema and the constraints of an empty database at revision n.        *)

Schema[n \in 0..Len(Chain)] == IF n = 0 THEN <<>> ELSE Altered(Chain[n].up, Schema[n - 1])

ChecksAt[n \in 0..Len(Chain)] ==
    IF n = 0 THEN <<>> ELSE PartOf(Chain[n].up, "check") @@ ChecksAt[n - 1]

At015 == 15
At016 == 16
At019 == 20
At020 == 21
At023 == 24

\* A new database; or one that ran revision 016 when it was only the price update.
Init ==
    /\ row = None
    /\ \/ rev = 0 /\ tables = Schema[0] /\ checks = ChecksAt[0]
       \/ rev = At016 /\ tables = Schema[At015] /\ checks = ChecksAt[At015]

\* The program, at that revision, writes a row.
Write ==
    /\ \E on \in DOMAIN checks : \E v \in checks[on] : row' = [on |-> on, value |-> v]
    /\ UNCHANGED <<rev, tables, checks>>

\* alembic upgrade +1
Upgrade == rev < Len(Chain) /\ Run(Chain[rev + 1].up) /\ rev' = rev + 1

\* alembic downgrade -1
Downgrade == rev > 0 /\ Run(Chain[rev].down) /\ rev' = rev - 1

Next == Write \/ Upgrade \/ Downgrade

Spec == Init /\ [][Next]_vars

------------------------------------------------------------------------------

TypeOK ==
    /\ rev \in 0..Len(Chain)
    /\ \A on \in DOMAIN checks : on[2] \in tables[on[1]]
    /\ row = None \/ (row.on \in DOMAIN checks /\ row.value \in checks[row.on])

\* The schema a revision is meant to have: but for the older lineage, which has no design
\* revisions before revision 023.
SchemaOfRevision ==
    \/ tables = Schema[rev]
    \/ /\ rev \in At016..(At023 - 1)
       /\ tables = [t \in DOMAIN Schema[rev] \ {"design_revisions"} |->
                        Schema[rev][t] \ {"current_design_revision"}]

\* Whatever history of upgrades and downgrades leads to a revision, from an empty database
\* or from one of the older lineage, the schema is the revision's: a downgrade undoes what
\* its upgrade did.  At the newest, every column a model maps is there, no other table is,
\* and the constraints are those of a new database.
ModelsServed ==
    /\ SchemaOfRevision
    /\ rev = Len(Chain) =>
          /\ DOMAIN tables = DOMAIN Tables
          /\ \A t \in DOMAIN Tables : Tables[t] \subseteq tables[t]
          /\ checks = ChecksAt[rev]

\* From revision 019 on, no row the constraints admit stops an upgrade, and from 020 on
\* none stops a downgrade: what a revision no longer admits, it converts or deletes first.
NeverBlocked ==
    /\ rev \in At019..(Len(Chain) - 1) => Applies(Chain[rev + 1].up)
    /\ rev >= At020 => Applies(Chain[rev].down)

=============================================================================
