----------------------- MODULE MCToolServerAdmission -----------------------
\* Manifests with every combination of fields left open and set, rightly and not.
EXTENDS ToolServerAdmission

MCPaths == {"/", "/tools", "/no path"}
MCWellFormed == {"/", "/mcp", "/sse", "/tools"}
=============================================================================
