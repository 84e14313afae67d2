----------------------------- MODULE MCMigrate ------------------------------
(***************************************************************************)
(* Migrate with the files of db_migrations.                                *)
(***************************************************************************)
EXTENDS Migrate

UpFiles == <<"00_setup", "01_user", "02_txs", "03_user_txs">>

DownFiles == <<"00_setup", "01_user", "02_txs", "03_user_tsx">>

\* 03_user_txs refers to user, address and signature; all but the first insert
\* into with_timestamps.
References == <<{}, {1}, {1}, {1, 2, 3}>>

=============================================================================
