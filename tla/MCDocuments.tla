------------------------------ MODULE MCDocuments ------------------------------
(***************************************************************************)
(* Documents for TLC: what two subjects ask of each other's and their own  *)
(* documents.                                                              *)
(***************************************************************************)
EXTENDS Documents, TLC

CONSTANTS alice, bob, home, other, x, y, z, doc

Ingest(who, tenant, docs, size) ==
    [op |-> "ingest", who |-> who, tenant |-> tenant, docs |-> docs, size |-> size,
     name |-> NoName]
Asking(op, who, tenant, name) ==
    [op |-> op, who |-> who, tenant |-> tenant, docs |-> {}, size |-> 1, name |-> name]
Doc(id, metadata, name) == [id |-> id, metadata |-> metadata, document_id |-> name]

\* Alice adds two documents in two batches, one of them under bob's name.  Bob uses an
\* id of hers twice, adds a document without an id in another tenant, sends batch
\* sizes that make no sense, asks for what always fails, and both delete.
MCRequests ==
    {Ingest(alice, NoTenant, {Doc(x, [clerk_user_id |-> bob], doc), Doc(y, <<>>, NoName)}, 1),
     Ingest(bob, other, {Doc(NoId, [tenant_id |-> home, doc_id |-> doc], NoName)}, -1),
     Ingest(bob, home, {Doc(x, <<>>, NoName), Doc(x, [doc_id |-> doc], NoName)}, 2),
     Ingest(bob, home, {Doc(x, <<>>, doc)}, 0),
     Ingest(alice, home, {}, 1),
     Asking("delete", bob, other, doc),
     Asking("delete", alice, home, doc),
     Asking("query", bob, home, doc),
     Asking("stats", bob, home, NoName)}

\* Alice has the same document in both tenants, and deletes it in one of them.
TenantRequests ==
    {Ingest(alice, home, {Doc(x, <<>>, doc)}, 1), Ingest(alice, other, {Doc(y, <<>>, doc)}, 1),
     Asking("delete", alice, other, doc)}
=============================================================================
