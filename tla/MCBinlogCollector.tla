------------------------ MODULE MCBinlogCollector ------------------------
(* Instances of the binlog collector. *)
EXTENDS BinlogCollector, TLC

HostSymmetry == Permutations(Hosts)

\* Bound: once a backup is taken, transactions.
MaxTxnOfBackup == 2
BackupsEarly   == running # 0 \/ backups # << >> => committed <= MaxTxnOfBackup
==========================================================================
