---------------------------- MODULE MCDemoServer ----------------------------
EXTENDS DemoServer
=============================================================================
