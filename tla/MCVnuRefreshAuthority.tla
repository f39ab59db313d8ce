----------------------- MODULE MCVnuRefreshAuthority -----------------------
(* Small instances of the authority for TLC: a record on a Durable Object  *)
(* and one on Redis, and its rows in PostgreSQL.                           *)
EXTENDS VnuRefreshRedis, VnuRefreshPostgres
=============================================================================
