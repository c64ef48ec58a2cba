------------------------------ MODULE MCPlugins ------------------------------
EXTENDS Plugins

CONSTANTS l1, l2
=============================================================================
