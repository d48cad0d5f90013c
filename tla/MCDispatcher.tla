---------------------------- MODULE MCDispatcher ----------------------------
EXTENDS Dispatcher
=============================================================================
