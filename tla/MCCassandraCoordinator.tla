---------------------- MODULE MCCassandraCoordinator ----------------------
EXTENDS CassandraCoordinator, TLC
===========================================================================
