----------------------------- MODULE BackOffice -----------------------------
(***************************************************************************)
(* The components around the sales chain together: Organization, Catalog,  *)
(* Documents, Desk, Trails and Records.  Each has its tables to itself, so the *)
(* whole is their conjunction: each of them goes its way whatever the others do. *)
(***************************************************************************)
EXTENDS Organization, Catalog, Documents, Desk, Trails, Records

BackOfficeSpec ==
    /\ OrganizationSpec /\ CatalogSpec /\ DocumentsSpec
    /\ DeskSpec /\ TrailsSpec /\ RecordsSpec

\* The rows and requests have the shape their handlers give them.
BackOfficeTypeOK ==
    /\ OrganizationTypeOK /\ CatalogTypeOK /\ DocumentsTypeOK
    /\ DeskTypeOK /\ TrailsTypeOK /\ RecordsTypeOK
=============================================================================
