------------------------------- MODULE Models -------------------------------
(***************************************************************************)
(* The tables the back end works with: for each model class, the columns it *)
(* maps.  Types, defaults and relationships are left out.                    *)
(***************************************************************************)

\* TimestampMixin
Timestamps == {"created_at", "updated_at"}

ApiBudgetPeriod ==
    {"id", "period_month", "budget_vnd", "warned_at", "suspended_at"} \cup Timestamps

ApiCostEntry ==
    {"id", "user_id", "provider", "operation", "status", "cost_vnd", "reference",
     "occurred_on", "occurred_at", "created_at"}

ArtisanLink ==
    {"id", "project_id", "user_id", "export_record_id", "token_hash", "expires_at",
     "max_downloads", "download_count", "revoked_at"} \cup Timestamps

AuditLog ==
    {"id", "actor_id", "actor_role", "action", "target_type", "target_id", "payload",
     "created_at"}

BakeJob ==
    {"id", "project_id", "kind", "design_config_snapshot", "status", "source_asset_id",
     "claim_id", "claim_token_hash", "claim_expires_at", "issued_outputs", "crop_box",
     "result", "priority", "error_message", "worker_id", "queued_at", "started_at",
     "completed_at"}

ConsentRecord ==
    {"id", "user_id", "type", "doc_version", "channel", "revoked_at"} \cup Timestamps

ContentReport ==
    {"id", "project_id", "template_id", "reported_user_id", "reporter_email",
     "reporter_name", "reason", "details", "evidence_url", "status", "resolution_note",
     "reviewed_by", "reviewed_at"} \cup Timestamps

CouponRedemption ==
    {"id", "coupon_id", "user_id", "invoice_id", "created_at"}

Coupon ==
    {"id", "code", "discount_type", "value", "plan_tiers", "max_uses", "used_count",
     "valid_from", "valid_until", "is_active"} \cup Timestamps

DataImport ==
    {"id", "user_id", "storage_path", "source_filename", "file_size_bytes", "checksum",
     "status", "rejected_reason", "projects_imported", "created_at", "completed_at"}

DesignRevision ==
    {"id", "project_id", "revision", "design_config", "author_user_id", "client",
     "created_at"}

DesignTemplate ==
    {"id", "name", "description", "category", "design_config", "thumbnail_path",
     "layer_count", "status", "created_by", "use_count"} \cup Timestamps

DesignVersion ==
    {"id", "project_id", "version_no", "design_config", "thumbnail_path", "is_pinned",
     "export_bake_job_id", "created_at"}

ExportRecord ==
    {"id", "project_id", "bake_job_id", "user_id", "format", "file_path",
     "file_size_bytes", "download_count", "is_watermarked", "created_at"}

Feedback ==
    {"id", "user_id", "rating", "marketing_group", "message", "is_internal", "status",
     "changed_what", "reviewed_by", "reviewed_at"} \cup Timestamps

GuardrailRule ==
    {"id", "kind", "term", "is_active"} \cup Timestamps

Invoice ==
    {"id", "user_id", "plan_id", "plan_tier", "billing_cycle", "order_code",
     "listed_price_vnd", "discount_vnd", "amount_vnd", "payment_method",
     "gateway_transaction_id", "gateway_payment_url", "payment_reference",
     "gateway_metadata", "status", "receipt_number", "receipt_path", "receipt_snapshot",
     "is_upgrade", "coupon_code", "is_manual", "proof_path", "collected_by",
     "manual_reason", "created_by", "approved_by", "paid_at"} \cup Timestamps

LoginHistory ==
    {"id", "user_id", "email_attempted", "success", "ip_address", "user_agent",
     "created_at"}

ModerationAction ==
    {"id", "user_id", "report_id", "level", "action", "reason", "restricted_until",
     "created_by", "created_at"}

MonthlyUsage ==
    {"id", "user_id", "period_start", "projects_count", "exports_count", "ai_credits_used",
     "scans_used", "updated_at"}

Plan ==
    {"id", "tier", "billing_cycle", "price_vnd", "max_projects", "max_exports_per_month",
     "allowed_export_formats", "bake_priority", "is_active", "max_ai_credits_per_cycle",
     "max_scans_per_cycle", "max_layers_per_zone", "max_layers_per_project",
     "allow_draw_artwork", "max_versions_per_project", "created_at"}

ProjectAsset ==
    {"id", "project_id", "user_id", "asset_type", "original_filename", "file_path",
     "file_size_bytes", "mime_type", "status", "derived_from_asset_id", "metadata",
     "created_at"}

Project ==
    {"id", "user_id", "name", "description", "status", "canonical_model_asset_id",
     "design_config", "current_design_revision", "thumbnail_path", "is_locked",
     "deleted_at"} \cup Timestamps

RecoveryCode ==
    {"id", "user_id", "code_hash", "used_at", "created_at"}

RefreshToken ==
    {"id", "user_id", "token_hash", "expires_at", "revoked_at", "user_agent", "ip_address",
     "last_used_at", "created_at"}

Refund ==
    {"id", "invoice_id", "amount_vnd", "reason", "created_by"} \cup Timestamps

ReportingPeriod ==
    {"id", "name", "start_date", "end_date", "status", "locked_by", "locked_at"}
        \cup Timestamps

ScanCredit ==
    {"id", "user_id", "invoice_id", "purchased_at", "expires_at", "purchase_cycle_start",
     "price_vnd", "status", "consumed_at", "consumed_ref"} \cup Timestamps

Subscription ==
    {"id", "user_id", "plan_id", "tier", "status", "started_at", "expires_at",
     "grace_until", "current_period_start", "last_invoice_id", "is_comp",
     "cancel_at_period_end"} \cup Timestamps

UserAttribution ==
    {"id", "user_id", "utm_source", "utm_medium", "utm_campaign", "utm_term",
     "utm_content", "fbclid", "ttclid", "gclid", "initial_referrer", "landing_page"}
        \cup Timestamps

User ==
    {"id", "account_code", "google_id", "email", "password_hash", "first_name",
     "last_name", "username", "avatar_path", "phone_number", "bio", "designer_role",
     "studio_name", "studio_location", "instagram_handle", "behance_username",
     "tiktok_handle", "language", "preferred_styles", "is_verified", "role", "status",
     "deleted_at", "is_internal", "is_profile_public", "show_designs_publicly",
     "is_searchable", "allow_analytics", "allow_ads_personalization",
     "username_changed_at", "two_factor_enabled", "two_factor_method", "totp_secret",
     "recovery_email", "recovery_email_verified", "acquisition_channel", "utm_source",
     "utm_campaign", "referral_code"} \cup Timestamps

\* Base.metadata, once app.models is imported.
Tables ==
    [api_budget_periods |-> ApiBudgetPeriod, api_cost_entries |-> ApiCostEntry,
     artisan_links |-> ArtisanLink, audit_logs |-> AuditLog, bake_jobs |-> BakeJob,
     consent_records |-> ConsentRecord, content_reports |-> ContentReport,
     coupon_redemptions |-> CouponRedemption, coupons |-> Coupon,
     data_imports |-> DataImport, design_revisions |-> DesignRevision,
     design_templates |-> DesignTemplate, design_versions |-> DesignVersion,
     export_records |-> ExportRecord, feedbacks |-> Feedback,
     guardrail_rules |-> GuardrailRule, invoices |-> Invoice,
     login_history |-> LoginHistory, moderation_actions |-> ModerationAction,
     monthly_usage |-> MonthlyUsage, plans |-> Plan, project_assets |-> ProjectAsset,
     projects |-> Project, recovery_codes |-> RecoveryCode,
     refresh_tokens |-> RefreshToken, refunds |-> Refund,
     reporting_periods |-> ReportingPeriod, scan_credits |-> ScanCredit,
     subscriptions |-> Subscription, user_attributions |-> UserAttribution,
     users |-> User]
=============================================================================
