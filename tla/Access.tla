------------------------------ MODULE Access ------------------------------
(***************************************************************************)
(* Who may call what: the roles and grants every tenant is provisioned     *)
(* with (tenants/seed/role-permission.matrix.ts), the permissions of the   *)
(* platform's staff (common/guards/auth.guards.ts), and the routes of the  *)
(* controllers with the HTTP verb and the permission each of them asks     *)
(* for.  Constant tables: Tenants runs the guards against them.            *)
(***************************************************************************)

DEFAULT_ROLE_KEYS == {"owner", "admin", "branch_manager", "sales", "shipping_ops",
                      "accountant", "customer_service"}

\* A row of the matrix; owner and admin are in all of them.
Granted(others, keys) == ({"owner", "admin"} \cup others) \X keys

Everyone == DEFAULT_ROLE_KEYS \ {"owner", "admin"}
Sellers == {"branch_manager", "sales"}

OrganizationGrants ==
    Granted({"branch_manager"}, {"organization.branches.view", "organization.employees.view"})
    \cup Granted({}, {"organization.branches.manage", "organization.employees.manage",
                      "organization.roles.view", "organization.roles.manage"})

CrmGrants ==
    Granted(Everyone, {"crm.customers.view"})
    \cup Granted(Sellers \cup {"customer_service"},
            {"crm.customers.create", "crm.customers.update", "crm.activities.manage"})
    \cup Granted(Sellers, {"crm.customers.export"})
    \cup Granted({}, {"crm.customers.delete"})

SupplierGrants ==
    Granted(Everyone \ {"customer_service"},
            {"suppliers.suppliers.view", "suppliers.rates.view"})
    \cup Granted({"shipping_ops"}, {"suppliers.suppliers.manage",
            "suppliers.rates.manage", "suppliers.rates.import"})

QuoteGrants ==
    Granted(Everyone \ {"accountant"}, {"quotes.rfq.view"})
    \cup Granted(Sellers \cup {"customer_service"}, {"quotes.rfq.manage"})
    \cup Granted(Everyone, {"quotes.quotes.view"})
    \cup Granted(Sellers, {"quotes.quotes.create", "quotes.quotes.update",
            "quotes.quotes.approve", "quotes.quotes.export"})
    \cup Granted({}, {"quotes.quotes.delete"})

OperationsGrants ==
    LET ops == {"branch_manager", "shipping_ops"} IN
    Granted(Everyone, {"bookings.bookings.view", "shipments.shipments.view"})
    \cup Granted(ops \cup {"sales"}, {"bookings.bookings.create"})
    \cup Granted(ops, {"bookings.bookings.update", "shipments.shipments.create",
                       "shipments.shipments.update"})
    \cup Granted(ops \cup {"customer_service"},
            {"shipments.status.manage", "shipments.tracking.manage"})
    \cup Granted({"shipping_ops"}, {"bookings.bookings.delete", "shipments.shipments.delete"})

DocumentGrants ==
    Granted(Everyone, {"documents.documents.view", "documents.documents.download"})
    \cup Granted(Everyone \ {"accountant"}, {"documents.documents.upload"})
    \cup Granted(Everyone \ {"customer_service"}, {"documents.generated.create"})
    \cup Granted({"shipping_ops"}, {"documents.documents.delete"})

FinanceGrants ==
    Granted({"branch_manager", "accountant"}, {"finance.invoices.view",
        "finance.payments.view", "finance.expenses.view",
        "finance.profitability.view", "finance.reports.view"})
    \cup Granted({"accountant"}, {"finance.invoices.create", "finance.invoices.update",
        "finance.invoices.delete", "finance.supplier_invoices.view",
        "finance.supplier_invoices.manage", "finance.payments.manage",
        "finance.expenses.manage", "finance.credit_notes.manage",
        "finance.exchange_rates.manage", "finance.reports.export"})
    \cup Granted({"sales", "shipping_ops", "accountant"}, {"finance.buy_prices.view"})
    \cup Granted({"sales", "accountant"}, {"finance.margins.view"})

ReportGrants ==
    Granted(Everyone, {"reports.dashboard.view", "reports.operational.view",
                       "search.tenant.use"})
    \cup Granted(Sellers \cup {"accountant"}, {"reports.operational.export"})

SettingsGrants ==
    Granted({"branch_manager", "accountant"}, {"settings.company.view"})
    \cup Granted({}, {"settings.company.manage", "settings.notifications.manage"})

SupportGrants ==
    Granted({"branch_manager", "customer_service"},
            {"support.company_requests.view", "support.company_requests.manage"})
    \cup Granted({}, {"support.raanko_tickets.view", "support.raanko_tickets.create"})
    \cup Granted({"branch_manager", "shipping_ops"}, {"imports.jobs.view"})
    \cup Granted({"shipping_ops"}, {"imports.jobs.run"})

\* The pairs of a role and a permission: a tenant's rolePermission rows.
ROLE_PERMISSION_MATRIX ==
    OrganizationGrants \cup CrmGrants \cup SupplierGrants \cup QuoteGrants
    \cup OperationsGrants \cup DocumentGrants \cup FinanceGrants
    \cup ReportGrants \cup SettingsGrants \cup SupportGrants

\* Every role of the platform that is not super_admin may do the same.
platformPermissionsForRole(role) ==
    {"platform.tenants.view", "platform.support.view", "platform.support.manage",
     "platform.audit.view"}
    \cup IF role # "super_admin" THEN {} ELSE
         {"platform.tenants.create", "platform.tenants.update",
          "platform.tenants.suspend", "platform.subscriptions.manage",
          "platform.usage.view", "platform.settings.manage", "platform.users.manage"}

-----------------------------------------------------------------------------
\* A route: <<verb, path, permission>>; Open asks for no permission.
Open == "none"
Routes(verb, permission, paths) == {verb} \X paths \X {permission}

OrganizationRoutes ==
    Routes("GET", "organization.branches.view", {"organization/branches"})
    \cup Routes("POST", "organization.branches.manage", {"organization/branches"})
    \cup Routes("PATCH", "organization.branches.manage", {"organization/branches/:id"})
    \cup Routes("DELETE", "organization.branches.manage", {"organization/branches/:id"})
    \cup Routes("GET", "organization.employees.view", {"organization/employees"})
    \cup Routes("POST", "organization.employees.manage", {"organization/employees/invite"})
    \cup Routes("PATCH", "organization.employees.manage", {"organization/employees/:id"})
    \cup Routes("GET", "organization.roles.view", {"organization/roles"})
    \cup Routes("GET", "settings.company.view", {"organization/settings"})
    \cup Routes("PATCH", "settings.company.manage", {"organization/settings"})

CrmRoutes ==
    Routes("GET", "crm.customers.view",
           {"crm/customers", "crm/customers/:id", "crm/customers/:id/activities"})
    \cup Routes("GET", "crm.customers.export",
           {"crm/customers/export", "crm/customers/export.csv"})
    \cup Routes("POST", "crm.customers.create", {"crm/customers"})
    \cup Routes("PATCH", "crm.customers.update", {"crm/customers/:id"})
    \cup Routes("DELETE", "crm.customers.delete", {"crm/customers/:id"})
    \cup Routes("POST", "crm.activities.manage", {"crm/customers/:id/activities"})
    \cup Routes("POST", "imports.jobs.run", {"crm/customers/import"})

SupplierRoutes ==
    Routes("GET", "suppliers.suppliers.view", {"suppliers"})
    \cup Routes("POST", "suppliers.suppliers.manage", {"suppliers"})
    \cup Routes("PATCH", "suppliers.suppliers.manage", {"suppliers/:id"})
    \cup Routes("GET", "suppliers.rates.view", {"rate-sheets", "charge-templates"})
    \cup Routes("POST", "suppliers.rates.manage", {"rate-sheets", "charge-templates"})
    \cup Routes("POST", "suppliers.rates.import", {"rate-sheets/import"})

QuoteRoutes ==
    Routes("GET", "quotes.rfq.view", {"quote-requests"})
    \cup Routes("POST", "quotes.rfq.manage", {"quote-requests"})
    \cup Routes("PATCH", "quotes.rfq.manage", {"quote-requests/:id"})
    \cup Routes("GET", "quotes.quotes.view", {"quotes", "quotes/:id"})
    \cup Routes("POST", "quotes.quotes.create", {"quotes", "quotes/:id/versions"})
    \cup Routes("POST", "quotes.quotes.approve",
           {"quotes/:id/send", "quotes/:id/accept", "quotes/:id/decline"})
    \cup Routes("POST", "quotes.quotes.view", {"quotes/:id/pdf"})

OperationsRoutes ==
    Routes("GET", "bookings.bookings.view", {"bookings"})
    \cup Routes("POST", "bookings.bookings.create", {"bookings"})
    \cup Routes("GET", "shipments.shipments.view", {"shipments", "shipments/:id"})
    \cup Routes("POST", "shipments.shipments.create", {"shipments"})
    \cup Routes("POST", "shipments.status.manage", {"shipments/:id/status"})
    \cup Routes("POST", "shipments.tracking.manage", {"shipments/:id/events"})

DocumentRoutes ==
    Routes("GET", "documents.documents.view", {"documents", "documents/:id"})
    \cup Routes("POST", "documents.documents.upload",
           {"documents/upload", "documents/:id/versions"})
    \cup Routes("GET", "documents.documents.download",
           {"documents/:id/download", "documents/:id/stream"})

FinanceRoutes ==
    Routes("GET", "finance.invoices.view", {"finance/invoices"})
    \cup Routes("POST", "finance.invoices.view", {"finance/invoices/:id/pdf"})
    \cup Routes("POST", "finance.invoices.create", {"finance/invoices"})
    \cup Routes("POST", "finance.invoices.update", {"finance/invoices/:id/issue"})
    \cup Routes("DELETE", "finance.invoices.delete", {"finance/invoices/:id"})
    \cup Routes("GET", "finance.supplier_invoices.view", {"finance/supplier-invoices"})
    \cup Routes("POST", "finance.supplier_invoices.manage", {"finance/supplier-invoices"})
    \cup Routes("GET", "finance.payments.view", {"finance/payments"})
    \cup Routes("POST", "finance.payments.manage", {"finance/payments"})
    \cup Routes("GET", "finance.expenses.view", {"finance/expenses"})
    \cup Routes("POST", "finance.expenses.manage", {"finance/expenses"})
    \cup Routes("POST", "finance.credit_notes.manage", {"finance/credit-notes"})
    \cup Routes("GET", "finance.exchange_rates.manage", {"finance/exchange-rates"})
    \cup Routes("POST", "finance.exchange_rates.manage", {"finance/exchange-rates"})
    \cup Routes("GET", "finance.profitability.view", {"finance/shipments/:id/profitability"})

ReportRoutes ==
    Routes("GET", "reports.dashboard.view", {"reports/dashboard"})
    \cup Routes("GET", "reports.operational.view", {"reports/operational"})
    \cup Routes("GET", "finance.reports.view", {"reports/financial"})
    \cup Routes("POST", "reports.operational.export", {"reports/export"})
    \cup Routes("GET", "reports.operational.export", {"reports/export.csv"})
    \cup Routes("GET", "search.tenant.use", {"search"})

SupportRoutes ==
    Routes("GET", "support.company_requests.view", {"support/requests"})
    \cup Routes("POST", "support.company_requests.manage",
           {"support/requests", "support/requests/:id/reply"})
    \cup Routes("GET", "support.raanko_tickets.view", {"support/raanko-tickets"})
    \cup Routes("POST", "support.raanko_tickets.create",
           {"support/raanko-tickets", "support/raanko-tickets/:id/reply"})

NotificationRoutes ==
    Routes("GET", Open, {"notifications", "notification-preferences"})
    \cup Routes("POST", Open, {"notifications/:id/read"})
    \cup Routes("PATCH", "settings.notifications.manage", {"notification-preferences"})
    \cup Routes("POST", "settings.notifications.manage", {"notifications/dispatch"})

SettingsRoutes ==
    Routes("GET", "settings.company.view", {"settings/domains", "settings/email-sender",
           "webhooks", "usage", "billing/subscription"})
    \cup Routes("POST", "settings.company.manage",
           {"settings/domains", "webhooks", "webhooks/:id/deliveries"})
    \cup Routes("PATCH", "settings.company.manage", {"settings/email-sender", "webhooks/:id"})
    \cup Routes("DELETE", "settings.company.manage", {"webhooks/:id"})
    \cup Routes("GET", "shipments.shipments.view", {"consolidations"})
    \cup Routes("POST", "shipments.shipments.create", {"consolidations"})

\* Behind CompanyAuthGuard, PermissionGuard and TenantWriteModeGuard, in this order.
CompanyRoutes ==
    OrganizationRoutes \cup CrmRoutes \cup SupplierRoutes \cup QuoteRoutes
    \cup OperationsRoutes \cup DocumentRoutes \cup FinanceRoutes \cup ReportRoutes
    \cup SupportRoutes \cup NotificationRoutes \cup SettingsRoutes

\* Behind PlatformAuthGuard and PermissionGuard.
TenantAdminRoutes ==
    Routes("GET", "platform.tenants.view", {"platform/tenants", "platform/tenants/:id"})
    \cup Routes("POST", "platform.tenants.create", {"platform/tenants"})
    \cup Routes("POST", "platform.tenants.update",
           {"platform/tenants/:id/activate", "platform/tenants/:id/read-only"})
    \cup Routes("POST", "platform.tenants.suspend", {"platform/tenants/:id/suspend"})
    \cup Routes("POST", "platform.subscriptions.manage",
           {"platform/tenants/:id/extend-trial"})

\* Behind PortalAuthGuard and TenantWriteModeGuard: no permission is asked.
PortalRoutes ==
    Routes("GET", Open, {"portal/home", "portal/quotes", "portal/quotes/:id",
           "portal/shipments", "portal/shipments/:id", "portal/invoices",
           "portal/documents", "portal/documents/:id", "portal/documents/:id/download",
           "portal/support", "portal/rfq"})
    \cup Routes("POST", Open, {"portal/quotes/:id/accept", "portal/quotes/:id/decline",
           "portal/support", "portal/support/:id/reply", "portal/rfq"})

MUTATING == {"POST", "PUT", "PATCH", "DELETE"}
Mutates(route) == route[1] \in MUTATING

\* PermissionGuard on the permissions the guard before it collected.
Permits(route, permissions) == route[3] \in permissions \cup {Open}

\* The permissions of a company role's rolePermission rows.
PermissionsOf(role) == {g[2] : g \in {h \in ROLE_PERMISSION_MATRIX : h[1] = role}}
=============================================================================
