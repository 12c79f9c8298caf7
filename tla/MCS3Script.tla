----------------------------- MODULE MCS3Script -----------------------------
(* S3Script with a file of two chunks, the six retries of boto and one status of every *)
(* kind the code tells apart.                                              *)
EXTENDS S3Script

MCStatuses == {200, 204, 301, 400, 403, 404, 409, 500, 503}
MCLocatedStatuses == {200, 301, 403, 503}
=============================================================================
